---- MODULE Spec2Model ----
(***************************************************************************)
(* A model of the GMS importer: the text reader (gms_reader.py), the mesh  *)
(* binding step of import_gms_file (import_gms.py) and the skin weight     *)
(* resolver apply_vertex_weights (mesh_builder.py).                        *)
(*                                                                         *)
(* Conventions.                                                            *)
(*  - Python lists are sequences; Python indices are 0-based, so list[i]   *)
(*    is written At0(list, i).                                             *)
(*  - A string that the code edits character-wise (a name) is a sequence   *)
(*    of tokens, e.g. <<"body", "_Mesh">> or <<"l", ":", "arm">>; the       *)
(*    empty sequence stands for both "" and None (every consumer only      *)
(*    tests such a value for truthiness).                                  *)
(*  - A weight is an integer number of 1e-5 units (0.0001 = 10).           *)
(*  - A text line is a record of what the reader's string tests can see.   *)
(***************************************************************************)
EXTENDS Integers, Sequences, FiniteSets, TLC

VARIABLES
    lines,          \* GMSReader.lines
    current_line,   \* GMSReader.current_line (0-based cursor)
    stack,          \* the active block-parse calls, innermost last
    model,          \* GMSReader.model / the Model handed to the later passes
    outcome,        \* how read_file stands: "start", "running", "returned", or the exception raised
    open_at_eof,    \* history: some block routine left its loop at end of input, not at its "}"
    arr_log,        \* history: per Arrays data line, what _parse_arrays appended
    prior,          \* history: how an earlier read_gms_file call over related text ended
    opts,           \* import_gms_file's options
    import_pc,      \* import_gms_file's position
    mesh_data,      \* the gms_reader Mesh being imported
    geometry,       \* what build_mesh_geometry returned for mesh_data
    armature,       \* armature_obj: [exists, bones] (bones: the names in armature_obj.data.bones)
    mesh_obj,       \* the Blender mesh object: name, custom properties, parenting, modifiers, vertex groups
    avw,            \* apply_vertex_weights' locals and position
    add_log         \* history: every vg.add(...) call, in order

vars == <<lines, current_line, stack, model, outcome, open_at_eof, arr_log, prior,
          opts, import_pc, mesh_data, geometry, armature, mesh_obj, avw, add_log>>

readerVars == <<lines, current_line, stack, outcome, open_at_eof, arr_log, prior>>
sceneVars == <<opts, import_pc, mesh_data, geometry, armature, mesh_obj, avw, add_log>>

----------------------------------------------------------------------------
(* Python helpers *)

At0(s, i) == s[i + 1]

Min(a, b) == IF a < b THEN a ELSE b

Range(s) == {s[i] : i \in 1..Len(s)}

SeqsUpTo(S, n) == UNION {[1..k -> S] : k \in 0..n}

EmptyStr == <<>>

----------------------------------------------------------------------------
(* The data model of gms_reader.py *)

NewBone ==
    [name |-> EmptyStr, parent_name |-> EmptyStr, translation |-> <<0, 0, 0>>,
     rotation |-> <<0, 0, 0>>, rotation_quaternion |-> <<>>, scale |-> <<1, 1, 1>>,
     blend_bones |-> <<>>]

NewVertexData ==
    [positions |-> <<>>, normals |-> <<>>, colors |-> <<>>, uvs |-> <<>>, weights |-> <<>>]

NewDrawArraysCommand ==
    [arrays_name |-> EmptyStr, primitive_type |-> "", vertex_count |-> 0,
     vertex_count_per_primitive |-> 0, primitive_count |-> 0, indices |-> <<>>]

NewMesh ==
    [name |-> EmptyStr, material_name |-> EmptyStr, draw_arrays |-> <<>>, part_arrays |-> {},
     blend_subset |-> <<>>]

NewLayer ==
    [name |-> EmptyStr, diffuse |-> <<>>, ambient |-> <<>>, specular |-> <<>>,
     emission |-> <<>>, texture_name |-> EmptyStr, meshes |-> <<>>]

NewMaterial ==
    [name |-> EmptyStr, diffuse |-> <<>>, ambient |-> <<>>, layers |-> <<>>]

NewMotion ==
    [name |-> EmptyStr, frame_rate |-> 30, frame_loop |-> <<0, 0>>]

NewPart == [name |-> EmptyStr, meshes |-> <<>>]

\* _parse_part's locals: the Part under construction and its part_arrays dict
NewPartCall == [name |-> EmptyStr, meshes |-> <<>>, part_arrays |-> {}]

NewTexture == [name |-> EmptyStr, filename |-> EmptyStr]

\* A dict is a set of <<key, value>> pairs with at most one pair per key.
DictGet(d, k) == IF \E p \in d : p[1] = k THEN (CHOOSE p \in d : p[1] = k)[2] ELSE EmptyStr

DictHas(d, k) == \E p \in d : p[1] = k

\* DictSet that keeps the value a key already has
DictSetFirst(d, k, v) == IF \E p \in d : p[1] = k THEN d ELSE d \cup {<<k, v>>}

DictSet(d, k, v) == {p \in d : p[1] # k} \cup {<<k, v>>}

NewModel ==
    [name |-> EmptyStr, bounding_box |-> <<>>, bones |-> <<>>, bone_dict |-> {},
     parts |-> <<>>, materials |-> <<>>, material_dict |-> {}, textures |-> <<>>,
     texture_dict |-> {}, motions |-> <<>>, arrays_dict |-> {}, part_to_bone |-> {}]

----------------------------------------------------------------------------
(* Text lines, as the reader's string tests see them.                      *)
(*   kw     the first word of the stripped line: "" for a blank line,      *)
(*          "//" for a comment, "}" and "{" for a line that is exactly     *)
(*          that brace, "data" for a line of numbers only                  *)
(*   indent whether the raw line starts with white space                   *)
(*   name   the first double-quoted substring (EmptyStr when there is none)*)
(*   brace  whether the stripped line ends with "{"                        *)
(*   vals   the numeric tokens after the keyword, in order                 *)
(*   names  all double-quoted substrings, in order                         *)
(*   flags  the parts of the first "|"-joined or known format token        *)
(*   prim   the primitive type token, without its PRIM_ prefix             *)

Ln(kw) ==
    [kw |-> kw, indent |-> FALSE, name |-> EmptyStr, brace |-> (kw = "{"), vals |-> <<>>,
     names |-> <<>>, flags |-> <<>>, prim |-> ""]

Header(kw, name, brace) == [Ln(kw) EXCEPT !.name = name, !.brace = brace]

Named(kw, name) == [Ln(kw) EXCEPT !.name = name, !.names = <<name>>]

Numeric(kw, vals) == [Ln(kw) EXCEPT !.vals = vals]

Strip(line) == [line EXCEPT !.indent = FALSE]

\* lines[0].startswith('.GMS'), on the raw line
StartsWithGMS(line) == line.kw = ".GMS" /\ ~line.indent

\* self.lines[i].strip()
LineAt(i) == Strip(lines[i + 1])

\* the cursor after _read_line()
AfterRead(cl) == IF cl < Len(lines) THEN cl + 1 ELSE cl

\* AfterHeader without the second _read_line(): the header is taken as one line
AfterHeaderOneRead(cl) == AfterRead(cl)

\* the cursor after a block header: line = _read_line(); if not line.endswith('{'): _read_line()
AfterHeader(cl) == IF LineAt(cl).brace THEN AfterRead(cl) ELSE AfterRead(AfterRead(cl))

----------------------------------------------------------------------------
(* The reader's state as one value, and the moves every routine shares *)

Cur ==
    [cl |-> current_line, stack |-> stack, model |-> model, outcome |-> outcome,
     eof |-> open_at_eof, log |-> arr_log]

SetReader(st) ==
    /\ current_line' = st.cl
    /\ stack' = st.stack
    /\ model' = st.model
    /\ outcome' = st.outcome
    /\ open_at_eof' = st.eof
    /\ arr_log' = st.log

\* a skipped line that leaves the cursor where it is
SkipInPlace(st) == st

Skip(st) == [st EXCEPT !.cl = @ + 1]

\* an exception leaves every routine and read_file: nothing is returned
Raise(st, exc) == [st EXCEPT !.outcome = exc, !.stack = <<>>]

TopOf(st) == st.stack[Len(st.stack)]

\* a call of a block routine from the line under the cursor: the header is read
Call(st, kind, obj) ==
    [st EXCEPT !.cl = AfterHeader(st.cl),
               !.stack = Append(@, [kind |-> kind,
                                    obj |-> [obj EXCEPT !.name = LineAt(st.cl).name]])]

\* CallModel with one Model object shared by all calls: a later call goes on
\* filling what the earlier call left
CallModelShared(st) ==
    [st EXCEPT !.cl = AfterHeader(st.cl),
               !.model = [(IF prior = <<>> THEN NewModel ELSE prior.model)
                              EXCEPT !.name = LineAt(st.cl).name],
               !.stack = Append(@, [kind |-> "Model", obj |-> <<>>])]

\* _parse_model's first lines: a fresh Model becomes self.model
CallModel(st) ==
    [st EXCEPT !.cl = AfterHeader(st.cl),
               !.model = [NewModel EXCEPT !.name = LineAt(st.cl).name],
               !.stack = Append(@, [kind |-> "Model", obj |-> <<>>])]

\* the routine on top returns to its caller, which stores the result; eof tells
\* that its loop ended on current_line >= len(lines) instead of on its "}"
Ret(st, eof) ==
    LET f == TopOf(st)
        n == Len(st.stack) - 1
        st1 == [st EXCEPT !.stack = SubSeq(@, 1, n), !.eof = @ \/ eof]
    IN  CASE f.kind = "Model" -> [st1 EXCEPT !.outcome = "returned"]
          [] f.kind = "Bone" ->
                [st1 EXCEPT !.model.bones = Append(@, f.obj),
                            !.model.bone_dict = DictSet(@, f.obj.name, Len(st.model.bones))]
          [] f.kind = "Part" ->
                LET meshes == [i \in 1..Len(f.obj.meshes) |->
                                  [f.obj.meshes[i] EXCEPT !.part_arrays = f.obj.part_arrays]]
                IN  [st1 EXCEPT !.model.parts =
                                    Append(@, [NewPart EXCEPT !.name = f.obj.name,
                                                              !.meshes = meshes])]
          [] f.kind = "Material" ->
                [st1 EXCEPT !.model.materials = Append(@, f.obj),
                            !.model.material_dict =
                                DictSet(@, f.obj.name, Len(st.model.materials))]
          [] f.kind = "Texture" ->
                [st1 EXCEPT !.model.textures = Append(@, f.obj),
                            !.model.texture_dict =
                                DictSet(@, f.obj.name, Len(st.model.textures))]
          [] f.kind = "Motion" -> [st1 EXCEPT !.model.motions = Append(@, f.obj)]
          [] f.kind = "Layer" -> [st1 EXCEPT !.stack[n].obj.layers = Append(@, f.obj)]
          [] f.kind = "Mesh" -> [st1 EXCEPT !.stack[n].obj.meshes = Append(@, f.obj)]
          [] f.kind = "Arrays" ->
                [st1 EXCEPT !.stack[n].obj.part_arrays = DictSet(@, f.obj.name, f.obj.data),
                            !.model.arrays_dict = DictSet(@, f.obj.name, f.obj.data)]

\* line = self._peek_line(): the stripped line under the cursor, "" past the end
PeekLine(st) == IF st.cl < Len(lines) THEN LineAt(st.cl) ELSE Ln("")

\* the part of the loop body that all block routines share: end of input, blank
\* and comment lines, the closing brace; dispatched is what the routine's own
\* branches make of every other line
LoopStep(st, dispatched) ==
    IF st.cl >= Len(lines) THEN Ret(st, TRUE)
    ELSE LET line == PeekLine(st)
         IN  IF line.kw = "" \/ line.kw = "//" THEN Skip(st)
             ELSE IF line.kw = "}" THEN Ret(Skip(st), FALSE)
             ELSE dispatched

\* bone.<field> = ... on the object of the routine on top
SetTop(st, field, value) ==
    [st EXCEPT !.stack[Len(st.stack)].obj = [@ EXCEPT ![field] = value]]

\* parts = line.split()[1:]; X(float(parts[0]), ..., float(parts[need - 1]))
ReadFloats(st, line, field, need) ==
    IF Len(line.vals) < need THEN Raise(Skip(st), "IndexError")
    ELSE SetTop(Skip(st), field, SubSeq(line.vals, 1, need))

----------------------------------------------------------------------------
(* _parse_arrays: the header's format flags and one data line *)

WeightFlags ==
    <<"WEIGHT1", "WEIGHT2", "WEIGHT3", "WEIGHT4", "WEIGHT5", "WEIGHT6", "WEIGHT7", "WEIGHT8">>

\* for i in range(1, 9): if f'WEIGHT{i}' in format_flags: weight_count = i; break
WeightCount(flags) ==
    LET hits == {i \in 1..Len(WeightFlags) : WeightFlags[i] \in Range(flags)}
    IN  IF hits = {} THEN 0 ELSE CHOOSE i \in hits : \A j \in hits : i <= j

\* the locals _parse_arrays derives from the header line
ArraysHeader(line) ==
    [name |-> line.name,
     has_vertex |-> "VERTEX" \in Range(line.flags),
     has_normal |-> "NORMAL" \in Range(line.flags),
     has_texcoord |-> "TEXCOORD" \in Range(line.flags),
     has_color |-> "COLOR" \in Range(line.flags),
     weight_count |-> WeightCount(line.flags),
     data |-> NewVertexData]

\* TakeField without "idx += width": every field is read at offset 0
TakeFieldNoAdvance(acc, enabled, width, stream, values) ==
    IF enabled /\ acc.idx + width <= Len(values)
    THEN [idx |-> acc.idx,
          data |-> [acc.data EXCEPT ![stream] =
                        Append(@, SubSeq(values, acc.idx + 1, acc.idx + width))],
          took |-> Append(acc.took, stream)]
    ELSE acc

\* one guarded field: if <enabled> and idx + width <= len(values): append; idx += width
TakeField(acc, enabled, width, stream, values) ==
    IF enabled /\ acc.idx + width <= Len(values)
    THEN [idx |-> acc.idx + width,
          data |-> [acc.data EXCEPT ![stream] =
                        Append(@, SubSeq(values, acc.idx + 1, acc.idx + width))],
          took |-> Append(acc.took, stream)]
    ELSE acc

\* the body of the data-line loop after values = [float(v) for v in line.split()]
DecodeLine(h, values) ==
    LET a0 == [idx |-> 0, data |-> h.data, took |-> <<>>]
        a1 == TakeField(a0, h.has_vertex, 3, "positions", values)
        a2 == TakeField(a1, h.has_normal, 3, "normals", values)
        a3 == TakeField(a2, h.has_texcoord, 2, "uvs", values)
        a4 == TakeField(a3, h.has_color, 4, "colors", values)
    IN  TakeField(a4, h.weight_count > 0, h.weight_count, "weights", values)

\* the fields the header enables, in the order the decoder visits them
EnabledFields(h) ==
    (IF h.has_vertex THEN <<"positions">> ELSE <<>>) \o
    (IF h.has_normal THEN <<"normals">> ELSE <<>>) \o
    (IF h.has_texcoord THEN <<"uvs">> ELSE <<>>) \o
    (IF h.has_color THEN <<"colors">> ELSE <<>>) \o
    (IF h.weight_count > 0 THEN <<"weights">> ELSE <<>>)

ArraysDispatch(st, line) ==
    IF line.kw # "data" THEN Raise(Skip(st), "ValueError")   \* float() of a word
    ELSE LET h == TopOf(st).obj
             r == DecodeLine(h, line.vals)
         IN  [Skip(st) EXCEPT !.stack[Len(st.stack)].obj.data = r.data,
                              !.log = Append(@, [flags |-> EnabledFields(h),
                                                 weight_count |-> h.weight_count,
                                                 values |-> line.vals,
                                                 before |-> h.data,
                                                 after |-> r.data,
                                                 took |-> r.took])]

----------------------------------------------------------------------------
(* The line dispatch of each block routine *)

ModelDispatch(st, line) ==
    CASE line.kw = "BoundingBox" ->
            IF Len(line.vals) < 6 THEN Raise(Skip(st), "IndexError")
            ELSE [Skip(st) EXCEPT !.model.bounding_box = SubSeq(line.vals, 1, 6)]
      [] line.kw = "Bone" -> Call(st, "Bone", NewBone)
      [] line.kw = "Part" -> Call(st, "Part", NewPartCall)
      [] line.kw = "Material" -> Call(st, "Material", NewMaterial)
      [] line.kw = "Texture" -> Call(st, "Texture", NewTexture)
      [] line.kw = "Motion" -> Call(st, "Motion", NewMotion)
      [] OTHER -> Skip(st)

BoneDispatch(st, line) ==
    CASE line.kw = "ParentBone" -> SetTop(Skip(st), "parent_name", line.name)
      [] line.kw = "Translate" -> ReadFloats(st, line, "translation", 3)
      [] line.kw \in {"RotateZYX", "RotateYXZ"} -> ReadFloats(st, line, "rotation", 3)
      [] line.kw = "RotateQ" -> ReadFloats(st, line, "rotation_quaternion", 4)
      [] line.kw = "Scale" -> ReadFloats(st, line, "scale", 3)
      [] line.kw = "BlendBones" -> SetTop(Skip(st), "blend_bones", line.names)
      [] line.kw = "DrawPart" ->
            IF line.name # EmptyStr
            THEN [Skip(st) EXCEPT !.model.part_to_bone =
                                      DictSet(@, line.name, TopOf(st).obj.name)]
            ELSE Skip(st)
      [] OTHER -> Skip(st)

PartDispatch(st, line) ==
    CASE line.kw = "BoundingBox" -> Skip(st)
      [] line.kw = "Mesh" -> Call(st, "Mesh", NewMesh)
      [] line.kw = "Arrays" ->
            Call(st, "Arrays", ArraysHeader(line))
      [] OTHER -> Skip(st)

\* if len(parts) >= 4: material.<field> = Color(...)
MaterialColor(st, line, field) ==
    IF Len(line.vals) >= 4 THEN SetTop(Skip(st), field, SubSeq(line.vals, 1, 4)) ELSE Skip(st)

MaterialDispatch(st, line) ==
    CASE line.kw = "Diffuse" -> MaterialColor(st, line, "diffuse")
      [] line.kw = "Ambient" -> MaterialColor(st, line, "ambient")
      [] line.kw = "Layer" -> Call(st, "Layer", NewLayer)
      [] OTHER -> Skip(st)

LayerDispatch(st, line) ==
    CASE line.kw = "Diffuse" -> ReadFloats(st, line, "diffuse", 4)
      [] line.kw = "Ambient" -> ReadFloats(st, line, "ambient", 4)
      [] line.kw = "Specular" -> ReadFloats(st, line, "specular", 4)
      [] line.kw = "Emission" -> ReadFloats(st, line, "emission", 4)
      [] line.kw = "SetTexture" -> SetTop(Skip(st), "texture_name", line.name)
      [] line.kw = "Mesh" -> Call(st, "Mesh", NewMesh)
      [] OTHER -> Skip(st)

\* BlendSubset <count> <idx>...: the first count indices that are on the line
BlendSubsetOf(line) ==
    IF Len(line.vals) >= 1
    THEN SubSeq(line.vals, 2, Min(1 + line.vals[1], Len(line.vals)))
    ELSE <<>>

\* parts[i].isdigit() on a numeric token: true for the non-negative integers
DigitsOr0(vals, i) == IF i <= Len(vals) /\ vals[i] >= 0 THEN vals[i] ELSE 0

\* _parse_draw_arrays: vals are the tokens after the primitive type
DrawArraysOf(line) ==
    IF line.prim = "" THEN [NewDrawArraysCommand EXCEPT !.arrays_name = line.name]
    ELSE [arrays_name |-> line.name,
          primitive_type |-> line.prim,
          vertex_count |-> DigitsOr0(line.vals, 1) * DigitsOr0(line.vals, 2),
          vertex_count_per_primitive |-> DigitsOr0(line.vals, 1),
          primitive_count |-> DigitsOr0(line.vals, 2),
          indices |-> SubSeq(line.vals, 3, Len(line.vals))]

MeshDispatch(st, line) ==
    CASE line.kw = "SetMaterial" -> SetTop(Skip(st), "material_name", line.name)
      [] line.kw = "BlendSubset" ->
            IF Len(line.vals) >= 1
            THEN SetTop(Skip(st), "blend_subset", BlendSubsetOf(line))
            ELSE Skip(st)
      [] line.kw = "DrawArrays" ->
            [Skip(st) EXCEPT !.stack[Len(st.stack)].obj.draw_arrays =
                                 Append(@, DrawArraysOf(line))]
      [] OTHER -> Skip(st)

TextureDispatch(st, line) ==
    CASE line.kw = "FileName" ->
            IF line.name # EmptyStr THEN SetTop(Skip(st), "filename", line.name) ELSE Skip(st)
      [] OTHER -> Skip(st)

MotionDispatch(st, line) ==
    CASE line.kw = "FrameRate" ->
            IF Len(line.vals) < 1 THEN Raise(Skip(st), "IndexError")
            ELSE SetTop(Skip(st), "frame_rate", line.vals[1])
      [] line.kw = "FrameLoop" -> ReadFloats(st, line, "frame_loop", 2)
      [] OTHER -> Skip(st)

----------------------------------------------------------------------------
(* read_file *)

\* read_file up to its loop: the file is read and the header is checked
HeaderCheck(st) ==
    IF Len(lines) = 0 THEN Raise(st, "IndexError")            \* self.lines[0] of []
    ELSE IF ~StartsWithGMS(lines[1]) THEN Raise(st, "ValueError: missing .GMS header")
    ELSE [st EXCEPT !.cl = 1, !.outcome = "running"]

\* one pass of read_file's loop over the top-level lines
TopLevelStep(st) ==
    IF st.cl >= Len(lines) THEN [st EXCEPT !.outcome = "returned"]
    ELSE LET line == LineAt(st.cl)
         IN  IF line.kw \in {"", "//", "DefineEnum", "DefineBlock", "DefineCommand", "BlindData"}
             THEN Skip(st)
             ELSE IF line.kw = "Model" THEN CallModel(st)
             ELSE Skip(st)

ReadFile ==
    /\ outcome = "start"
    /\ SetReader(HeaderCheck(Cur))
    /\ UNCHANGED <<lines, prior, sceneVars>>

ReadTopLevel ==
    /\ outcome = "running" /\ Len(stack) = 0
    /\ SetReader(TopLevelStep(Cur))
    /\ UNCHANGED <<lines, prior, sceneVars>>

In(kind) == outcome = "running" /\ Len(stack) > 0 /\ stack[Len(stack)].kind = kind

ParseModel ==
    /\ In("Model")
    /\ SetReader(LoopStep(Cur, ModelDispatch(Cur, PeekLine(Cur))))
    /\ UNCHANGED <<lines, prior, sceneVars>>

ParseBone ==
    /\ In("Bone")
    /\ SetReader(LoopStep(Cur, BoneDispatch(Cur, PeekLine(Cur))))
    /\ UNCHANGED <<lines, prior, sceneVars>>

ParsePart ==
    /\ In("Part")
    /\ SetReader(LoopStep(Cur, PartDispatch(Cur, PeekLine(Cur))))
    /\ UNCHANGED <<lines, prior, sceneVars>>

ParseArrays ==
    /\ In("Arrays")
    /\ SetReader(LoopStep(Cur, ArraysDispatch(Cur, PeekLine(Cur))))
    /\ UNCHANGED <<lines, prior, sceneVars>>

ParseMaterial ==
    /\ In("Material")
    /\ SetReader(LoopStep(Cur, MaterialDispatch(Cur, PeekLine(Cur))))
    /\ UNCHANGED <<lines, prior, sceneVars>>

ParseLayer ==
    /\ In("Layer")
    /\ SetReader(LoopStep(Cur, LayerDispatch(Cur, PeekLine(Cur))))
    /\ UNCHANGED <<lines, prior, sceneVars>>

ParseMesh ==
    /\ In("Mesh")
    /\ SetReader(LoopStep(Cur, MeshDispatch(Cur, PeekLine(Cur))))
    /\ UNCHANGED <<lines, prior, sceneVars>>

ParseTexture ==
    /\ In("Texture")
    /\ SetReader(LoopStep(Cur, TextureDispatch(Cur, PeekLine(Cur))))
    /\ UNCHANGED <<lines, prior, sceneVars>>

ParseMotion ==
    /\ In("Motion")
    /\ SetReader(LoopStep(Cur, MotionDispatch(Cur, PeekLine(Cur))))
    /\ UNCHANGED <<lines, prior, sceneVars>>

----------------------------------------------------------------------------
(* The passes after the parse are idle while a file is read *)

NoArmature == [exists |-> FALSE, bones |-> {}]

NoMeshObj ==
    [exists |-> FALSE, name |-> EmptyStr, props |-> {}, gms_weights |-> <<>>,
     gms_blend_subset |-> <<>>, nverts |-> 0, parent_type |-> "", parent_bone |-> EmptyStr,
     modifiers |-> <<>>, vertex_groups |-> <<>>]

IdleAvw ==
    [pc |-> "idle", blend_subset |-> <<>>, weights |-> <<>>, blend_bones |-> <<>>,
     bone_groups |-> {}, vert_idx |-> 0, skipped |-> ""]

DefaultOpts ==
    [import_armature |-> TRUE, apply_weights |-> TRUE, coordinate_system |-> "BLENDER", scale |-> 1]

NoGeometry == [nverts |-> 0, nfaces |-> 0, weights |-> <<>>, error |-> "", built |-> TRUE]

\* create_mesh_object has not called build_mesh_geometry yet
NotBuilt == [NoGeometry EXCEPT !.built = FALSE]

SceneIdle ==
    /\ opts = DefaultOpts
    /\ import_pc = "idle"
    /\ mesh_data = NewMesh
    /\ geometry = NoGeometry
    /\ armature = NoArmature
    /\ mesh_obj = NoMeshObj
    /\ avw = IdleAvw
    /\ add_log = <<>>

NoPrior == <<>>

ReaderStart(ls) ==
    /\ lines = ls
    /\ prior = NoPrior
    /\ current_line = 0
    /\ stack = <<>>
    /\ model = NewModel
    /\ outcome = "start"
    /\ open_at_eof = FALSE
    /\ arr_log = <<>>

----------------------------------------------------------------------------
(* Specification SpecRead: read_file over every short file made of block   *)
(* headers, closing braces and blank lines, behind every kind of first line *)

MaxBody == 4

BlockKinds ==
    {"Model", "Bone", "Part", "Arrays", "Material", "Layer", "Mesh", "Texture", "Motion"}

ReadAlphabet == {Header(k, <<"n">>, TRUE) : k \in BlockKinds} \cup {Ln("}"), Ln("")}

FirstLines == {Ln(".GMS"), [Ln(".GMS") EXCEPT !.indent = TRUE], Header("Model", <<"n">>, TRUE)}

\* the empty file, and every first line in front of every body of up to n lines
ReadFiles(n) ==
    {<<>>} \cup {<<f>> \o body : f \in FirstLines, body \in SeqsUpTo(ReadAlphabet, n)}

InitRead == (\E ls \in ReadFiles(MaxBody) : ReaderStart(ls)) /\ SceneIdle

NextRead ==
    \/ ReadFile
    \/ ReadTopLevel
    \/ ParseModel
    \/ ParseBone
    \/ ParsePart
    \/ ParseArrays
    \/ ParseMaterial
    \/ ParseLayer
    \/ ParseMesh
    \/ ParseTexture
    \/ ParseMotion

SpecRead == InitRead /\ [][NextRead]_vars

\* C1: read_file on an input whose first line does not start with ".GMS", or with
\* no line at all, ends with ValueError "missing .GMS header", before any block
\* is parsed and with no Model returned.
C1_HeaderFailsFast ==
    (outcome # "start" /\ (Len(lines) = 0 \/ ~StartsWithGMS(lines[1])))
        => /\ outcome = "ValueError: missing .GMS header"
           /\ current_line = 0
           /\ model = NewModel

\* C2: when the input ends inside a block whose "}" was never read, read_file
\* returns no Model.
C2_NoPartialModel == outcome = "returned" => ~open_at_eof

----------------------------------------------------------------------------
(* Specification SpecArrays: read_file over a file with one Arrays block,   *)
(* for every combination of format flags and short lists of data lines; a  *)
(* data line of n numbers holds the numbers 1..n                            *)

MaxDataLines == 2

\* the longest record the flags below can ask for: 3 + 3 + 2 + 4 + 2 numbers
MaxVals == 3 + 3 + 2 + 4 + 2

StreamFlags ==
    {<<>>, <<"VERTEX">>, <<"VERTEX", "NORMAL">>, <<"VERTEX", "TEXCOORD">>,
     <<"VERTEX", "NORMAL", "TEXCOORD">>, <<"VERTEX", "COLOR">>, <<"NORMAL", "TEXCOORD">>,
     <<"VERTEX", "NORMAL", "COLOR">>, <<"VERTEX", "NORMAL", "TEXCOORD", "COLOR">>}

WeightFlagChoices == {<<>>, <<"WEIGHT1">>, <<"WEIGHT2">>}

ArraysFlags == {f \o w : f \in StreamFlags, w \in WeightFlagChoices}

DataLine(n) == Numeric("data", [i \in 1..n |-> i])

\* the last data line has any length; the lines before it hold three numbers or
\* a full record
DataBodies(m) ==
    {<<>>} \cup
    {pre \o <<DataLine(n)>> :
        pre \in SeqsUpTo({DataLine(3), DataLine(MaxVals)}, m - 1), n \in 1..MaxVals}

ArraysFiles(m) ==
    {<<Ln(".GMS"), Header("Model", <<"m">>, TRUE), Header("Part", <<"p", "_Part">>, TRUE),
       [Header("Arrays", <<"a">>, TRUE) EXCEPT !.flags = fl]>>
        \o body \o <<Ln("}"), Ln("}"), Ln("}")>> :
        fl \in ArraysFlags, body \in DataBodies(m)}

InitArrays == (\E ls \in ArraysFiles(MaxDataLines) : ReaderStart(ls)) /\ SceneIdle

NextArrays ==
    \/ ReadFile
    \/ ReadTopLevel
    \/ ParseModel
    \/ ParsePart
    \/ ParseArrays

SpecArrays == InitArrays /\ [][NextArrays]_vars

FieldOrder == <<"positions", "normals", "uvs", "colors", "weights">>

FieldWidth(e, s) ==
    CASE s = "positions" -> 3
      [] s = "normals" -> 3
      [] s = "uvs" -> 2
      [] s = "colors" -> 4
      [] s = "weights" -> e.weight_count

FieldPos(s) == CHOOSE i \in 1..Len(FieldOrder) : FieldOrder[i] = s

RECURSIVE SumWidths(_, _)
SumWidths(e, S) ==
    IF S = {} THEN 0
    ELSE LET s == CHOOSE x \in S : TRUE IN FieldWidth(e, s) + SumWidths(e, S \ {s})

\* where the values of field s start on the line of log entry e, given the
\* fields taken before it
OffsetOf(e, s) ==
    SumWidths(e, {t \in Range(e.took) : FieldPos(t) < FieldPos(s)})

\* C9: a data line is consumed left to right in the order position(3), normal(3),
\* uv(2), color(4), weights(N): a stream grows by at most one entry per line, only
\* when it is enabled and its width of values remains at the current offset, and
\* the entry holds the values at that offset; with VERTEX|NORMAL and exactly 3
\* numbers one position and nothing else is appended, and nothing is raised.
C9_LeftToRightFields ==
    /\ outcome \in {"start", "running", "returned"}
    /\ \A k \in 1..Len(arr_log) :
          LET e == arr_log[k] IN
          /\ \A i \in 1..Len(FieldOrder) :
                LET s == FieldOrder[i]
                    off == OffsetOf(e, s)
                IN  IF s \in Range(e.took)
                    THEN /\ s \in Range(e.flags)
                         /\ off + FieldWidth(e, s) <= Len(e.values)
                         /\ e.after[s] =
                                Append(e.before[s],
                                       SubSeq(e.values, off + 1, off + FieldWidth(e, s)))
                    ELSE e.after[s] = e.before[s]
          /\ (e.flags = <<"positions", "normals">> /\ Len(e.values) = 3)
                => e.took = <<"positions">>

C9_Witness ==
    \E k \in 1..Len(arr_log) :
        /\ arr_log[k].flags = <<"positions", "normals">>
        /\ Len(arr_log[k].values) = 3
        /\ Len(arr_log[k].after.positions) = Len(arr_log[k].before.positions) + 1
        /\ arr_log[k].after.normals = arr_log[k].before.normals

IsPrefix(p, q) == Len(p) <= Len(q) /\ SubSeq(q, 1, Len(p)) = p

\* C10: on every data line the omitted fields are a trailing part of the enabled
\* fields: once an enabled field is omitted, no later field is appended.
C10_OmittedIsSuffix ==
    \A k \in 1..Len(arr_log) : IsPrefix(arr_log[k].took, arr_log[k].flags)

----------------------------------------------------------------------------
(* Names: utils.sanitize_name and the "_Mesh" -> "_Part" convention *)

BadChars == {"\\", "/", ":", "*", "?", "\"", "<", ">", "|"}

\* utils.sanitize_name: every invalid character becomes "_"
sanitize_name(name) == [i \in 1..Len(name) |-> IF name[i] \in BadChars THEN "_" ELSE name[i]]

\* name.replace("_Mesh", "_Part")
MeshToPartName(name) == [i \in 1..Len(name) |-> IF name[i] = "_Mesh" THEN "_Part" ELSE name[i]]

\* for bone in model.bones: if bone.name == name: parent_bone = bone; break
\* (0 when no bone has the name, else the 1-based position of the first one)
FindBone(m, name) ==
    LET hits == {i \in 1..Len(m.bones) : m.bones[i].name = name}
    IN  IF hits = {} THEN 0 ELSE CHOOSE i \in hits : \A j \in hits : i <= j

----------------------------------------------------------------------------
(* import_gms_file: the armature, the mesh object and its binding *)

----------------------------------------------------------------------------
(* create_armature: vectors, rotations and the transform of every bone.     *)
(* Angles are counted in quarter turns, lengths in units of the translation *)
(* values; a 4x4 transform is kept as its rotation block and its translation *)

Vec3Add(a, b) == <<a[1] + b[1], a[2] + b[2], a[3] + b[3]>>

Dot(a, b) == a[1] * b[1] + a[2] * b[2] + a[3] * b[3]

MatVec(M, v) == <<Dot(M[1], v), Dot(M[2], v), Dot(M[3], v)>>

Column(B, j) == <<B[1][j], B[2][j], B[3][j]>>

MatMul(A, B) ==
    <<<<Dot(A[1], Column(B, 1)), Dot(A[1], Column(B, 2)), Dot(A[1], Column(B, 3))>>,
      <<Dot(A[2], Column(B, 1)), Dot(A[2], Column(B, 2)), Dot(A[2], Column(B, 3))>>,
      <<Dot(A[3], Column(B, 1)), Dot(A[3], Column(B, 2)), Dot(A[3], Column(B, 3))>>>>

Cos4(q) == CASE q % 4 = 0 -> 1 [] q % 4 = 2 -> -1 [] OTHER -> 0

Sin4(q) == CASE q % 4 = 1 -> 1 [] q % 4 = 3 -> -1 [] OTHER -> 0

RotX(q) == <<<<1, 0, 0>>, <<0, Cos4(q), -Sin4(q)>>, <<0, Sin4(q), Cos4(q)>>>>

RotY(q) == <<<<Cos4(q), 0, Sin4(q)>>, <<0, 1, 0>>, <<-Sin4(q), 0, Cos4(q)>>>>

RotZ(q) == <<<<Cos4(q), -Sin4(q), 0>>, <<Sin4(q), Cos4(q), 0>>, <<0, 0, 1>>>>

\* mathutils.Euler((x, y, z), 'XYZ').to_matrix(): about X first, then Y, then Z
EulerToMatrix(r) == MatMul(RotZ(r[3]), MatMul(RotY(r[2]), RotX(r[1])))

\* quat.invert(): the conjugate (the length is divided out in QuatToMatrix)
QuatInvert(q) == <<q[1], -q[2], -q[3], -q[4]>>

\* the rotation of quaternion (w, x, y, z), normalised as quat.to_euler() does
QuatToMatrix(q) ==
    LET w == q[1]
        x == q[2]
        y == q[3]
        z == q[4]
        n == w * w + x * x + y * y + z * z
    IN  <<<<(w * w + x * x - y * y - z * z) \div n, (2 * (x * y - w * z)) \div n,
            (2 * (x * z + w * y)) \div n>>,
          <<(2 * (x * y + w * z)) \div n, (w * w - x * x + y * y - z * z) \div n,
            (2 * (y * z - w * x)) \div n>>,
          <<(2 * (x * z - w * y)) \div n, (2 * (y * z + w * x)) \div n,
            (w * w - x * x - y * y + z * z) \div n>>>>

\* rot_euler.to_matrix(): of the inverted quaternion when the bone has one, else
\* of the bone's rotation values
RotationOf(bone_data) ==
    IF bone_data.rotation_quaternion # <<>>
    THEN QuatToMatrix(QuatInvert(bone_data.rotation_quaternion))
    ELSE EulerToMatrix(bone_data.rotation)

\* local_matrix_psp = Translation(translation * scale) @ rot_euler.to_matrix().to_4x4()
LocalMatrix(bone_data, scale) ==
    [rot |-> RotationOf(bone_data),
     trans |-> <<bone_data.translation[1] * scale, bone_data.translation[2] * scale,
                 bone_data.translation[3] * scale>>]

\* Compose with the translations added and the parent's rotation left out
ComposeSum(A, B) == [rot |-> MatMul(A.rot, B.rot), trans |-> Vec3Add(A.trans, B.trans)]

\* A @ B for two such transforms
Compose(A, B) == [rot |-> MatMul(A.rot, B.rot), trans |-> Vec3Add(A.trans, MatVec(A.rot, B.trans))]

\* utils.convert_coordinate_system: (x, y, z) -> (x, z, -y) for 'BLENDER'
convert_coordinate_system(v, system) ==
    IF system = "BLENDER" THEN <<v[1], v[3], -v[2]>> ELSE <<v[1], v[2], v[3]>>

\* ParentEntry that falls back to the bone created last when the name is not in
\* bone_map
ParentEntryOrLast(acc, parent_name) ==
    IF DictHas(acc.bone_map, sanitize_name(parent_name))
    THEN DictGet(acc.bone_map, sanitize_name(parent_name))
    ELSE Len(acc.edit_bones)

\* bone_map[sanitize_name(parent_name)] when the name is in bone_map, as the
\* position of the entry's bone; 0 when it is not
ParentEntry(acc, parent_name) ==
    IF DictHas(acc.bone_map, sanitize_name(parent_name))
    THEN DictGet(acc.bone_map, sanitize_name(parent_name))
    ELSE 0

\* ArmatureStep with the converted position written into the stored world matrix
ArmatureStepConvertEarly(acc, bone_data, coordinate_system, scale) ==
    LET bone_name == sanitize_name(bone_data.name)
        local == LocalMatrix(bone_data, scale)
        p == IF bone_data.parent_name # EmptyStr THEN ParentEntry(acc, bone_data.parent_name) ELSE 0
        world == IF p # 0 THEN Compose(acc.edit_bones[p].world, local) ELSE local
        head == IF coordinate_system = "BLENDER"
                THEN convert_coordinate_system(world.trans, "BLENDER") ELSE world.trans
    IN  [edit_bones |-> Append(acc.edit_bones,
                               [name |-> bone_name, parent |-> p,
                                world |-> [world EXCEPT !.trans = head],
                                head |-> head, x_axis |-> MatVec(local.rot, <<1, 0, 0>>),
                                tail_at |-> <<>>]),
         bone_map |-> DictSet(acc.bone_map, bone_name, Len(acc.edit_bones) + 1)]

\* one pass of the bone loop: the edit bone, its world matrix and its head
ArmatureStep(acc, bone_data, coordinate_system, scale) ==
    LET bone_name == sanitize_name(bone_data.name)
        local == LocalMatrix(bone_data, scale)
        p == IF bone_data.parent_name # EmptyStr THEN ParentEntry(acc, bone_data.parent_name) ELSE 0
        world == IF p # 0 THEN Compose(acc.edit_bones[p].world, local) ELSE local
        head == IF coordinate_system = "BLENDER"
                THEN convert_coordinate_system(world.trans, "BLENDER") ELSE world.trans
    IN  [edit_bones |-> Append(acc.edit_bones,
                               [name |-> bone_name, parent |-> p, world |-> world,
                                head |-> head, x_axis |-> MatVec(local.rot, <<1, 0, 0>>),
                                tail_at |-> <<>>]),
         bone_map |-> DictSet(acc.bone_map, bone_name, Len(acc.edit_bones) + 1)]

RECURSIVE ArmatureLoop(_, _, _, _)
ArmatureLoop(m, n, coordinate_system, scale) ==
    IF n = 0 THEN [edit_bones |-> <<>>, bone_map |-> {}]
    ELSE ArmatureStep(ArmatureLoop(m, n - 1, coordinate_system, scale), m.bones[n],
                      coordinate_system, scale)

\* edit_bones.get(name): the first edit bone created under the name, 0 when none
EditBoneGet(edit_bones, name) ==
    LET hits == {i \in 1..Len(edit_bones) : edit_bones[i].name = name}
    IN  IF hits = {} THEN 0 ELSE CHOOSE i \in hits : \A j \in hits : i <= j

\* bone_children[name][0]: the first bone whose parent_name is name, 0 when none
FirstChild(m, name) ==
    LET hits == {i \in 1..Len(m.bones) :
                    m.bones[i].parent_name # EmptyStr /\ m.bones[i].parent_name = name}
    IN  IF hits = {} THEN 0 ELSE CHOOSE i \in hits : \A j \in hits : i <= j

\* one pass of the last loop: a bone with children gets its tail on the head of
\* its first child when the two heads differ; tail_at stays <<>> for a tail left
\* at head + x_axis * (0.01 * scale)
TailStep(m, edit_bones, n) ==
    LET e == EditBoneGet(edit_bones, sanitize_name(m.bones[n].name))
        k == FirstChild(m, m.bones[n].name)
        c == IF k = 0 THEN 0 ELSE EditBoneGet(edit_bones, sanitize_name(m.bones[k].name))
    IN  IF k = 0 \/ c = 0 THEN edit_bones
        ELSE IF edit_bones[c].head = edit_bones[e].head THEN edit_bones
        ELSE [edit_bones EXCEPT ![e].tail_at = edit_bones[c].head]

RECURSIVE TailLoop(_, _, _)
TailLoop(m, edit_bones, n) ==
    IF n = 0 THEN edit_bones ELSE TailStep(m, TailLoop(m, edit_bones, n - 1), n)

\* create_armature: one edit bone per Model bone, named sanitize_name(bone.name)
ArmatureOf(m, coordinate_system, scale) ==
    [exists |-> TRUE,
     bones |-> {sanitize_name(m.bones[i].name) : i \in 1..Len(m.bones)},
     edit_bones |-> TailLoop(m, ArmatureLoop(m, Len(m.bones), coordinate_system, scale).edit_bones,
                            Len(m.bones))]

CreateArmature ==
    /\ import_pc = "armature"
    /\ armature' = IF opts.import_armature /\ Len(model.bones) > 0
                   THEN ArmatureOf(model, opts.coordinate_system, opts.scale)
                   ELSE NoArmature
    /\ import_pc' = "mesh"
    /\ UNCHANGED <<readerVars, model, opts, mesh_data, geometry, mesh_obj, avw, add_log>>

\* create_mesh_object: None without geometry, else an object that carries the
\* weights and the BlendSubset as custom properties
MeshObjectOf(md, geo) ==
    IF geo.nverts = 0 \/ geo.nfaces = 0 THEN NoMeshObj
    ELSE [NoMeshObj EXCEPT !.exists = TRUE,
                           !.name = sanitize_name(md.name),
                           !.nverts = geo.nverts,
                           !.props = {"gms_weights", "gms_blend_subset"},
                           !.gms_weights = geo.weights,
                           !.gms_blend_subset = md.blend_subset]

\* s[a:b] for 0 <= a <= b
PySlice(s, a, b) == SubSeq(s, a + 1, Min(b, Len(s)))

\* s[idx] raises no IndexError
PyHas(s, idx) == idx < Len(s) /\ idx >= -Len(s)

\* s[idx], a negative idx counting from the end
PyAt(s, idx) == IF idx >= 0 THEN s[idx + 1] ELSE s[Len(s) + idx + 1]

\* utils.apply_scale
apply_scale(v, scale) == <<v[1] * scale, v[2] * scale, v[3] * scale>>

build_faces_from_primitive(primitive_type, indices, base_idx) ==
    LET n == Len(indices)
        window(k) == [i |-> k - 1, i0 |-> indices[k], i1 |-> indices[k + 1], i2 |-> indices[k + 2]]
        windows == [k \in 1..(IF n >= 3 THEN n - 2 ELSE 0) |-> window(k)]
        Proper(w) == ~(w.i0 = w.i1 \/ w.i1 = w.i2 \/ w.i0 = w.i2)
        kept == SelectSeq(windows, Proper)
    IN  CASE primitive_type = "TRIANGLES" ->
                [k \in 1..(n \div 3) |->
                    <<base_idx + indices[3 * k - 2], base_idx + indices[3 * k - 1],
                      base_idx + indices[3 * k]>>]
          [] primitive_type = "TRIANGLE_STRIP" ->
                [k \in 1..Len(kept) |->
                    IF kept[k].i % 2 = 0
                    THEN <<base_idx + kept[k].i0, base_idx + kept[k].i1, base_idx + kept[k].i2>>
                    ELSE <<base_idx + kept[k].i1, base_idx + kept[k].i0, base_idx + kept[k].i2>>]
          [] primitive_type = "TRIANGLE_FAN" ->
                [k \in 1..(IF n >= 3 THEN n - 2 ELSE 0) |->
                    <<base_idx + indices[1], base_idx + indices[k + 1], base_idx + indices[k + 2]>>]
          [] OTHER -> <<>>

\* the lists build_mesh_geometry starts from
EmptyLists ==
    [vertices |-> <<>>, faces |-> <<>>, uvs |-> <<>>, normals |-> <<>>, weights |-> <<>>,
     error |-> ""]

\* the body of "for idx in prim_indices"; the normal is kept unnormalised
VertexStep(acc, vertex_data, idx, coordinate_system, scale) ==
    IF acc.error # "" THEN acc
    ELSE IF idx >= Len(vertex_data.positions) THEN acc
    ELSE IF \/ ~PyHas(vertex_data.positions, idx)
            \/ (idx < Len(vertex_data.uvs) /\ ~PyHas(vertex_data.uvs, idx))
            \/ (idx < Len(vertex_data.normals) /\ ~PyHas(vertex_data.normals, idx))
            \/ (idx < Len(vertex_data.weights) /\ ~PyHas(vertex_data.weights, idx))
         THEN [acc EXCEPT !.error = "IndexError"]
    ELSE [acc EXCEPT
            !.vertices = Append(@, apply_scale(convert_coordinate_system(
                                       PyAt(vertex_data.positions, idx), coordinate_system), scale)),
            !.uvs = Append(@, IF idx < Len(vertex_data.uvs) THEN PyAt(vertex_data.uvs, idx)
                              ELSE <<0, 0>>),
            !.normals = Append(@, IF idx < Len(vertex_data.normals)
                                  THEN convert_coordinate_system(PyAt(vertex_data.normals, idx),
                                                                 coordinate_system)
                                  ELSE <<0, 0, 1>>),
            !.weights = Append(@, IF idx < Len(vertex_data.weights)
                                  THEN PyAt(vertex_data.weights, idx) ELSE <<>>)]

RECURSIVE VertexLoop(_, _, _, _, _, _)
VertexLoop(acc, vertex_data, prim_indices, n, coordinate_system, scale) ==
    IF n = 0 THEN acc
    ELSE VertexStep(VertexLoop(acc, vertex_data, prim_indices, n - 1, coordinate_system, scale),
                    vertex_data, prim_indices[n], coordinate_system, scale)

\* the body of "for prim_idx, prim_indices in enumerate(primitives)"
PrimitiveStep(acc, vertex_data, draw_cmd, prim_idx, coordinate_system, scale) ==
    LET prim_indices == PySlice(draw_cmd.indices, prim_idx * draw_cmd.vertex_count_per_primitive,
                                (prim_idx + 1) * draw_cmd.vertex_count_per_primitive)
        after == VertexLoop(acc, vertex_data, prim_indices, Len(prim_indices),
                            coordinate_system, scale)
        prim_faces == build_faces_from_primitive(draw_cmd.primitive_type,
                                                 [i \in 1..Len(prim_indices) |-> i - 1],
                                                 Len(acc.vertices))
    IN  IF acc.error # "" \/ after.error # "" THEN [acc EXCEPT !.error = after.error]
        ELSE [after EXCEPT !.faces = @ \o prim_faces]

RECURSIVE PrimitiveLoop(_, _, _, _, _, _)
PrimitiveLoop(acc, vertex_data, draw_cmd, n, coordinate_system, scale) ==
    IF n = 0 THEN acc
    ELSE PrimitiveStep(PrimitiveLoop(acc, vertex_data, draw_cmd, n - 1, coordinate_system, scale),
                       vertex_data, draw_cmd, n - 1, coordinate_system, scale)

\* the loop body with model.arrays_dict[draw_cmd.arrays_name] read unguarded
CommandStepKeyError(acc, m, draw_cmd, coordinate_system, scale) ==
    IF acc.error # "" THEN acc
    ELSE IF ~DictHas(m.arrays_dict, draw_cmd.arrays_name) THEN [acc EXCEPT !.error = "KeyError"]
    ELSE PrimitiveLoop(acc, DictGet(m.arrays_dict, draw_cmd.arrays_name), draw_cmd,
                       draw_cmd.primitive_count, coordinate_system, scale)

\* the body of "for cmd_idx, draw_cmd in enumerate(mesh_data.draw_arrays)"
CommandStep(acc, m, draw_cmd, coordinate_system, scale) ==
    IF acc.error # "" THEN acc
    ELSE IF ~DictHas(m.arrays_dict, draw_cmd.arrays_name) THEN acc
    ELSE PrimitiveLoop(acc, DictGet(m.arrays_dict, draw_cmd.arrays_name), draw_cmd,
                       draw_cmd.primitive_count, coordinate_system, scale)

RECURSIVE CommandLoop(_, _, _, _, _)
CommandLoop(md, m, n, coordinate_system, scale) ==
    IF n = 0 THEN EmptyLists
    ELSE CommandStep(CommandLoop(md, m, n - 1, coordinate_system, scale), m, md.draw_arrays[n],
                     coordinate_system, scale)

build_mesh_geometry(md, m, coordinate_system, scale) ==
    CommandLoop(md, m, Len(md.draw_arrays), coordinate_system, scale)

\* what create_mesh_object holds after its call of build_mesh_geometry
GeometryOf(md, m, coordinate_system, scale) ==
    LET g == build_mesh_geometry(md, m, coordinate_system, scale)
    IN  [nverts |-> Len(g.vertices), nfaces |-> Len(g.faces), weights |-> g.weights,
         error |-> g.error, built |-> TRUE, vertices |-> g.vertices, faces |-> g.faces,
         uvs |-> g.uvs, normals |-> g.normals]

\* create_mesh_object; an exception of build_mesh_geometry ends the import
CreateMeshObject ==
    /\ import_pc = "mesh"
    /\ LET geo == IF geometry.built THEN geometry
                  ELSE GeometryOf(mesh_data, model, opts.coordinate_system, opts.scale)
       IN  /\ geometry' = geo
           /\ mesh_obj' = IF geo.error # "" THEN mesh_obj ELSE MeshObjectOf(mesh_data, geo)
           /\ import_pc' = IF geo.error # "" THEN "cancelled" ELSE "bind"
    /\ UNCHANGED <<readerVars, model, opts, mesh_data, armature, avw, add_log>>

\* the driving bone's name as both passes look it up: part_to_bone.get(<part name>)
ParentBoneName(m, obj_name) == DictGet(m.part_to_bone, MeshToPartName(obj_name))

\* is_rigid_mesh without the test of the mesh's BlendSubset
IsRigidMeshAnySubset(m, md, obj_name) ==
    LET pbn == ParentBoneName(m, obj_name)
        pb == FindBone(m, pbn)
    IN  /\ pbn # EmptyStr
        /\ pb # 0
        /\ m.bones[pb].blend_bones = <<>>

\* is_rigid_mesh of import_gms_file
IsRigidMesh(m, md, obj_name) ==
    LET pbn == ParentBoneName(m, obj_name)
        pb == FindBone(m, pbn)
    IN  /\ pbn # EmptyStr
        /\ pb # 0
        /\ m.bones[pb].blend_bones = <<>>
        /\ md.blend_subset = <<>>

\* the binding of one created mesh object when an armature exists
Bound(m, md, arm, obj) ==
    IF IsRigidMesh(m, md, obj.name)
    THEN LET bone_name == sanitize_name(ParentBoneName(m, obj.name))
         IN  IF bone_name \in arm.bones
             THEN [obj EXCEPT !.parent_type = "BONE", !.parent_bone = bone_name]
             ELSE obj
    ELSE [obj EXCEPT !.parent_type = "OBJECT", !.modifiers = Append(@, "ARMATURE")]

BindMesh ==
    /\ import_pc = "bind"
    /\ mesh_obj' = IF mesh_obj.exists /\ armature.exists
                   THEN Bound(model, mesh_data, armature, mesh_obj) ELSE mesh_obj
    /\ import_pc' = "weights"
    /\ UNCHANGED <<readerVars, model, opts, mesh_data, geometry, armature, avw, add_log>>

----------------------------------------------------------------------------
(* mesh_builder.apply_vertex_weights *)

\* 0.0001 and 1.0 in units of 1e-5
Epsilon == 10

FullWeight == 100000

\* the elements of one vertex's weight list: a bare weight, or a (channel, weight) pair
W(w) == [pair |-> FALSE, c |-> 0, w |-> w]

P(c, w) == [pair |-> TRUE, c |-> c, w |-> w]

\* a vertex that is in no vertex group has this in place of a weight
NotInGroup == -1

RECURSIVE IterFrom(_, _, _)
IterFrom(vert_weights, pairs, k) ==
    IF k > Len(vert_weights) THEN <<>>
    ELSE LET e == vert_weights[k]
             rest == IterFrom(vert_weights, pairs, k + 1)
         IN  IF pairs
             THEN IF e.pair THEN <<[c |-> e.c, w |-> e.w]>> \o rest
                  ELSE rest                       \* int(entry[0]) raises: continue
             ELSE IF e.pair THEN rest             \* float(pair) raises: continue
                  ELSE <<[c |-> k - 1, w |-> e.w]>> \o rest

\* _iter_weight_entries: the (channel, weight) pairs one vertex's list yields; the
\* shape of the list is decided by its first element
IterWeightEntries(vert_weights) ==
    IF vert_weights = <<>> THEN <<>>
    ELSE IterFrom(vert_weights, vert_weights[1].pair, 1)

\* the position of the vertex group called name (0 when there is none)
GroupIndex(vgs, name) ==
    IF \E i \in 1..Len(vgs) : vgs[i].name = name
    THEN CHOOSE i \in 1..Len(vgs) : vgs[i].name = name
    ELSE 0

\* the bone a local index names, read in the global bone list instead of BlendBones
GroupBoneNameGlobal(m, blend_bones, local_bone_idx) ==
    sanitize_name(At0(m.bones, local_bone_idx).name)

\* bone_name = sanitize_name(parent_bone.blend_bones[local_bone_idx])
GroupBoneName(m, blend_bones, local_bone_idx) ==
    sanitize_name(At0(blend_bones, local_bone_idx))

\* one pass of the loop over blend_subset that creates the vertex groups
GroupStep(m, blend_bones, arm, nverts, acc, local_bone_idx) ==
    IF local_bone_idx < 0 \/ local_bone_idx >= Len(blend_bones) THEN acc
    ELSE LET bone_name == GroupBoneName(m, blend_bones, local_bone_idx)
             gi == GroupIndex(acc.vgs, bone_name)
         IN  IF bone_name \notin arm.bones THEN acc
             ELSE IF gi # 0
             THEN [acc EXCEPT !.bone_groups = DictSet(@, local_bone_idx, gi)]
             ELSE [vgs |-> Append(acc.vgs, [name |-> bone_name,
                                            w |-> [v \in 1..nverts |-> NotInGroup]]),
                   bone_groups |-> DictSet(acc.bone_groups, local_bone_idx,
                                           Len(acc.vgs) + 1)]

RECURSIVE GroupsFrom(_, _, _, _, _, _, _)
GroupsFrom(m, blend_bones, arm, nverts, blend_subset, k, acc) ==
    IF k > Len(blend_subset) THEN acc
    ELSE GroupsFrom(m, blend_bones, arm, nverts, blend_subset, k + 1,
                    GroupStep(m, blend_bones, arm, nverts, acc, blend_subset[k]))

\* the loop over blend_subset leaving at the first index that is out of range
BuildBoneGroupsBreak(m, blend_bones, arm, obj, blend_subset) ==
    LET bad == {k \in 1..Len(blend_subset) :
                    blend_subset[k] < 0 \/ blend_subset[k] >= Len(blend_bones)}
        upto == IF bad = {} THEN Len(blend_subset)
                ELSE (CHOOSE k \in bad : \A j \in bad : k <= j) - 1
    IN  GroupsFrom(m, blend_bones, arm, obj.nverts, SubSeq(blend_subset, 1, upto), 1,
                   [vgs |-> obj.vertex_groups, bone_groups |-> {}])

\* the loop over blend_subset: the vertex groups, and bone_groups (local index -> group)
BuildBoneGroups(m, blend_bones, arm, obj, blend_subset) ==
    GroupsFrom(m, blend_bones, arm, obj.nverts, blend_subset, 1,
               [vgs |-> obj.vertex_groups, bone_groups |-> {}])

\* Case 1 applies: without all(not w for w in weights)
SingleBoneCaseNoWeightsOnly(weights, blend_subset) ==
    weights = <<>> /\ Len(blend_subset) = 1

\* Case 1 applies: (not weights or all(not w for w in weights)) and len(blend_subset) == 1
SingleBoneCase(weights, blend_subset) ==
    /\ weights = <<>> \/ \A i \in 1..Len(weights) : weights[i] = <<>>
    /\ Len(blend_subset) = 1

\* weight_value > 0.0001
IsSignificant(weight_value) == weight_value > Epsilon

\* vg.add([vert_idx], weight, 'ADD') on group gi: the weight is added to the one held
AddWeightSum(acc, gi, vert_idx, channel, local_bone_idx, weight) ==
    [acc EXCEPT !.vgs[gi].w[vert_idx + 1] = IF @ = NotInGroup THEN weight ELSE @ + weight,
                !.log = Append(@, [group |-> acc.vgs[gi].name, vert |-> vert_idx,
                                   channel |-> channel, local |-> local_bone_idx,
                                   weight |-> weight])]

\* vg.add([vert_idx], weight, 'REPLACE') on group gi, and its record in the history
AddWeight(acc, gi, vert_idx, channel, local_bone_idx, weight) ==
    [acc EXCEPT !.vgs[gi].w[vert_idx + 1] = weight,
                !.log = Append(@, [group |-> acc.vgs[gi].name, vert |-> vert_idx,
                                   channel |-> channel, local |-> local_bone_idx,
                                   weight |-> weight])]

\* Case 1: every vertex gets 1.0 in the group of blend_subset[0]
RECURSIVE SingleBoneFrom(_, _, _, _, _)
SingleBoneFrom(acc, gi, local_bone_idx, nverts, vert_idx) ==
    IF vert_idx >= nverts THEN acc
    ELSE SingleBoneFrom(AddWeight(acc, gi, vert_idx, 0, local_bone_idx, FullWeight),
                        gi, local_bone_idx, nverts, vert_idx + 1)

\* Case 2, the inner loop: the entries of one vertex from the k-th on
RECURSIVE EntriesFrom(_, _, _, _, _, _)
EntriesFrom(acc, blend_subset, bone_groups, vert_idx, entries, k) ==
    IF k > Len(entries) \/ acc.raised # "" THEN acc
    ELSE LET c == entries[k].c
             w == entries[k].w
             n == Len(blend_subset)
         IN  IF ~(c < n)
             THEN EntriesFrom(acc, blend_subset, bone_groups, vert_idx, entries, k + 1)
             ELSE IF c < -n
             THEN [acc EXCEPT !.raised = "IndexError"]     \* blend_subset[c], c < -len
             ELSE LET local == IF c >= 0 THEN At0(blend_subset, c)
                                         ELSE At0(blend_subset, n + c)
                  IN  IF IsSignificant(w) /\ DictHas(bone_groups, local)
                      THEN EntriesFrom(AddWeight(acc, DictGet(bone_groups, local),
                                                 vert_idx, c, local, w),
                                       blend_subset, bone_groups, vert_idx, entries, k + 1)
                      ELSE EntriesFrom(acc, blend_subset, bone_groups, vert_idx,
                                       entries, k + 1)

\* why apply_vertex_weights returns before it creates any vertex group ("" when
\* it does not)
EarlyReturn(m, arm, obj) ==
    LET pbn == ParentBoneName(m, obj.name)
        pb == FindBone(m, pbn)
        bs == obj.gms_blend_subset
    IN  IF ~obj.exists \/ ~arm.exists THEN "no object"
        ELSE IF "gms_blend_subset" \notin obj.props THEN "no BlendSubset data"
        ELSE IF pbn = EmptyStr THEN "no parent bone"
        ELSE IF pb = 0 \/ (m.bones[pb].blend_bones = <<>> /\ bs = <<>>) THEN "rigid"
        ELSE IF m.bones[pb].blend_bones = <<>> THEN "no BlendBones"
        ELSE ""

\* import_gms_file's weight stage and apply_vertex_weights up to its first loop
CallApplyVertexWeights ==
    /\ import_pc = "weights"
    /\ IF opts.apply_weights /\ armature.exists /\ mesh_obj.exists
       THEN LET why == EarlyReturn(model, armature, mesh_obj)
                pb == FindBone(model, ParentBoneName(model, mesh_obj.name))
            IN  IF why # ""
                THEN /\ avw' = [IdleAvw EXCEPT !.pc = "return", !.skipped = why]
                     /\ import_pc' = "done"
                ELSE /\ avw' = [IdleAvw EXCEPT
                                   !.pc = "groups",
                                   !.blend_subset = mesh_obj.gms_blend_subset,
                                   !.weights = IF "gms_weights" \in mesh_obj.props
                                               THEN mesh_obj.gms_weights ELSE <<>>,
                                   !.blend_bones = model.bones[pb].blend_bones]
                     /\ import_pc' = "avw"
       ELSE /\ avw' = avw
            /\ import_pc' = "done"
    /\ UNCHANGED <<readerVars, model, opts, mesh_data, geometry, armature, mesh_obj, add_log>>

AVW_Groups ==
    /\ import_pc = "avw" /\ avw.pc = "groups"
    /\ LET r == BuildBoneGroups(model, avw.blend_bones, armature, mesh_obj, avw.blend_subset)
       IN  /\ mesh_obj' = [mesh_obj EXCEPT !.vertex_groups = r.vgs]
           /\ avw' = [avw EXCEPT !.pc = "case", !.bone_groups = r.bone_groups]
    /\ UNCHANGED <<readerVars, model, opts, import_pc, mesh_data, geometry, armature, add_log>>

AVW_Case ==
    /\ import_pc = "avw" /\ avw.pc = "case"
    /\ IF SingleBoneCase(avw.weights, avw.blend_subset)
       THEN LET local == At0(avw.blend_subset, 0)
                acc == [vgs |-> mesh_obj.vertex_groups, log |-> add_log, raised |-> ""]
                r == IF DictHas(avw.bone_groups, local)
                     THEN SingleBoneFrom(acc, DictGet(avw.bone_groups, local), local,
                                         mesh_obj.nverts, 0)
                     ELSE acc
            IN  /\ mesh_obj' = [mesh_obj EXCEPT !.vertex_groups = r.vgs]
                /\ add_log' = r.log
                /\ avw' = [avw EXCEPT !.pc = "cleanup"]
       ELSE /\ avw' = [avw EXCEPT !.pc = IF avw.weights # <<>> THEN "weights" ELSE "cleanup",
                                  !.vert_idx = 0]
            /\ UNCHANGED <<mesh_obj, add_log>>
    /\ UNCHANGED <<readerVars, model, opts, import_pc, mesh_data, geometry, armature>>

\* one pass of Case 2's loop over the vertices
AVW_Vertex ==
    /\ import_pc = "avw" /\ avw.pc = "weights"
    /\ LET v == avw.vert_idx
           acc == [vgs |-> mesh_obj.vertex_groups, log |-> add_log, raised |-> ""]
           r == IF v >= mesh_obj.nverts THEN acc
                ELSE EntriesFrom(acc, avw.blend_subset, avw.bone_groups, v,
                                 IterWeightEntries(At0(avw.weights, v)), 1)
           last == v >= mesh_obj.nverts \/ v + 1 >= Len(avw.weights)
       IN  /\ mesh_obj' = [mesh_obj EXCEPT !.vertex_groups = r.vgs]
           /\ add_log' = r.log
           /\ IF r.raised # ""
              THEN /\ avw' = [avw EXCEPT !.pc = "raised"]
                   /\ import_pc' = "cancelled"
              ELSE /\ avw' = [avw EXCEPT !.pc = IF last THEN "cleanup" ELSE "weights",
                                         !.vert_idx = v + 1]
                   /\ import_pc' = import_pc
    /\ UNCHANGED <<readerVars, model, opts, mesh_data, geometry, armature>>

\* AVW_Cleanup that empties the weight lists it was handed, which are the lists
\* of the Model's arrays, in place of deleting the object's properties
AVW_CleanupInPlace ==
    /\ import_pc = "avw" /\ avw.pc = "cleanup"
    /\ model' = [model EXCEPT !.arrays_dict =
                     {<<e[1], [e[2] EXCEPT !.weights = [i \in 1..Len(@) |-> <<>>]]>> : e \in @}]
    /\ mesh_obj' = [mesh_obj EXCEPT !.props = {}, !.gms_weights = <<>>,
                                    !.gms_blend_subset = <<>>]
    /\ avw' = [avw EXCEPT !.pc = "return"]
    /\ import_pc' = "done"
    /\ UNCHANGED <<readerVars, opts, mesh_data, geometry, armature, add_log>>

\* del mesh_obj['gms_weights']; del mesh_obj['gms_blend_subset']
AVW_Cleanup ==
    /\ import_pc = "avw" /\ avw.pc = "cleanup"
    /\ mesh_obj' = [mesh_obj EXCEPT !.props = {}, !.gms_weights = <<>>,
                                    !.gms_blend_subset = <<>>]
    /\ avw' = [avw EXCEPT !.pc = "return"]
    /\ import_pc' = "done"
    /\ UNCHANGED <<readerVars, model, opts, mesh_data, geometry, armature, add_log>>

----------------------------------------------------------------------------
(* Scenes for the passes after the parse: one mesh "body_Mesh" of the part  *)
(* "body_Part", drawn by the bone "root"; the reader has returned.          *)

MaxVerts == 2

Nm(t) == <<t>>

BodyMesh == <<"body", "_Mesh">>

BodyPart == <<"body", "_Part">>

\* the BlendBones list of the spec's example: hip, spine, neck, head, l:arm, r:arm
BB6 == <<Nm("hip"), Nm("spine"), Nm("neck"), Nm("head"), <<"l", ":", "arm">>, <<"r", ":", "arm">>>>

\* "ghost" names no bone of the Model
BlendBonesChoices ==
    {<<>>, <<Nm("hip")>>, <<Nm("hip"), Nm("ghost")>>, <<Nm("spine"), Nm("spine"), Nm("hip")>>, BB6}

BlendSubsetChoices ==
    {<<>>, <<0>>, <<1>>, <<-1>>, <<9>>, <<0, 1>>, <<1, 0>>, <<0, 9>>, <<9, 0>>,
     <<0, -1, 1>>, <<2, 5>>, <<0, 0>>}

\* what _parse_arrays stores per vertex: a list of floats, one per channel
DenseEntries ==
    {<<>>, <<W(70000)>>, <<W(5)>>, <<W(10)>>, <<W(70000), W(30000)>>, <<W(20), W(5)>>,
     <<W(30000), W(70000), W(20)>>, <<W(0), W(100000)>>}

\* the other format _iter_weight_entries supports: (channel, weight) pairs, and
\* lists that mix the two
PairEntries ==
    {<<>>, <<P(0, 70000), P(1, 30000)>>, <<P(1, 30000)>>, <<P(2, 50000)>>, <<P(9, 50000)>>,
     <<P(-1, 40000)>>, <<P(-3, 40000), P(0, 60000)>>, <<P(0, 60000), W(40000)>>,
     <<W(60000), P(0, 40000)>>}

\* the Model: bone "root" carries the part's DrawPart and the BlendBones list
SceneModel(blend_bones, part_to_bone) ==
    LET names == <<Nm("root")>> \o BB6
        bones == [i \in 1..Len(names) |->
                    [NewBone EXCEPT !.name = names[i],
                                    !.blend_bones = IF i = 1 THEN blend_bones ELSE <<>>]]
    IN  [NewModel EXCEPT !.name = Nm("m"),
                         !.bones = bones,
                         !.bone_dict = {<<names[i], i>> : i \in 1..Len(names)},
                         !.part_to_bone = part_to_bone]

PartToBoneChoices == {{<<BodyPart, Nm("root")>>}, {}, {<<BodyPart, Nm("nobone")>>}}

\* the weights of a mesh of 1..MaxVerts vertices: any entry for vertex 0, an
\* entry of tail for each later vertex
WeightsOver(entries, tail) ==
    {<<e>> \o rest : e \in entries, rest \in SeqsUpTo(tail, MaxVerts - 1)}

\* every combination of BlendBones, BlendSubset and per-vertex weights, with the
\* part drawn by "root" and both options on; and every part_to_bone, option and
\* geometry variant for a few of them
Scenes(entries, tail) ==
    [bb : BlendBonesChoices, bs : BlendSubsetChoices, weights : WeightsOver(entries, tail),
     ptb : {{<<BodyPart, Nm("root")>>}}, opts : {DefaultOpts}, nfaces : {1}]
    \cup
    [bb : {<<>>, BB6}, bs : {<<>>, <<0>>}, weights : {<<<<>>>>, <<<<W(70000)>>>>},
     ptb : PartToBoneChoices,
     opts : [import_armature : BOOLEAN, apply_weights : BOOLEAN,
             coordinate_system : {"BLENDER"}, scale : {1}], nfaces : {0, 1}]

SceneStart(sc) ==
    /\ lines = <<>>
    /\ prior = NoPrior
    /\ current_line = 0
    /\ stack = <<>>
    /\ outcome = "returned"
    /\ open_at_eof = FALSE
    /\ arr_log = <<>>
    /\ model = SceneModel(sc.bb, sc.ptb)
    /\ opts = sc.opts
    /\ import_pc = "armature"
    /\ mesh_data = [NewMesh EXCEPT !.name = BodyMesh, !.blend_subset = sc.bs]
    /\ geometry = [NoGeometry EXCEPT !.nverts = Len(sc.weights), !.nfaces = sc.nfaces,
                                     !.weights = sc.weights]
    /\ armature = NoArmature
    /\ mesh_obj = NoMeshObj
    /\ avw = IdleAvw
    /\ add_log = <<>>

NextImport ==
    \/ CreateArmature
    \/ CreateMeshObject
    \/ BindMesh
    \/ CallApplyVertexWeights
    \/ AVW_Groups
    \/ AVW_Case
    \/ AVW_Vertex
    \/ AVW_Cleanup

----------------------------------------------------------------------------
(* Specification SpecSkin: the import of a mesh whose per-vertex weights are *)
(* the float lists the reader produces                                       *)

InitSkin == \E sc \in Scenes(DenseEntries, {<<>>, <<W(20), W(5)>>}) : SceneStart(sc)

SpecSkin == InitSkin /\ [][NextImport]_vars

----------------------------------------------------------------------------
(* Specification SpecPairs: the same import over (channel, weight) pair lists *)

InitPairs == \E sc \in Scenes(PairEntries, {<<>>, <<P(1, 30000)>>}) : SceneStart(sc)

SpecPairs == InitPairs /\ [][NextImport]_vars

----------------------------------------------------------------------------
(* Properties of the binding and of the weight resolver *)

\* the scene's driving bone: the position in model.bones of the bone that
\* part_to_bone gives for the mesh's part (0 when there is none)
Driver ==
    LET owners == {p \in model.part_to_bone : p[1] = BodyPart}
    IN  IF owners = {} THEN 0
        ELSE LET nm == (CHOOSE p \in owners : TRUE)[2]
             IN  IF \E i \in 1..Len(model.bones) : model.bones[i].name = nm
                 THEN CHOOSE i \in 1..Len(model.bones) :
                        /\ model.bones[i].name = nm
                        /\ \A j \in 1..(i - 1) : model.bones[j].name # nm
                 ELSE 0

DriverBlendBones == IF Driver = 0 THEN <<>> ELSE model.bones[Driver].blend_bones

\* the name a channel resolves to: channel -> blend_subset -> blend_bones -> name
\* (EmptyStr when one of the two indices is out of range)
Resolved(c) ==
    LET bs == mesh_data.blend_subset
        bb == DriverBlendBones
    IN  IF c \in 0..(Len(bs) - 1) /\ bs[c + 1] \in 0..(Len(bb) - 1)
        THEN sanitize_name(bb[bs[c + 1] + 1])
        ELSE EmptyStr

Resolvable(c) == Resolved(c) # EmptyStr /\ Resolved(c) \in armature.bones

NoWeightData == \A v \in 1..Len(geometry.weights) : geometry.weights[v] = <<>>

\* apply_vertex_weights ran through its loops and returned
Resolver_Done == import_pc = "done" /\ avw.pc = "return" /\ avw.skipped = ""

\* C3: every weight that apply_vertex_weights assigns for vertex v and channel c
\* goes to the vertex group named blend_bones[blend_subset[c]] of the driving
\* bone, and it is the weight of that channel.
C3_DoubleIndirection ==
    \A k \in 1..Len(add_log) :
        LET e == add_log[k]
            vw == geometry.weights[e.vert + 1]
        IN  /\ Resolved(e.channel) # EmptyStr
            /\ e.group = Resolved(e.channel)
            /\ e.weight = IF vw = <<>> THEN FullWeight ELSE vw[e.channel + 1].w

\* the spec's example: blend_subset = [2, 5] over six blend_bones, weights 0.7 and
\* 0.3 on channels 0 and 1, give neck = 0.7 and r_arm = 0.3
C3_Witness ==
    /\ Resolver_Done
    /\ mesh_data.blend_subset = <<2, 5>>
    /\ DriverBlendBones = BB6
    /\ \E i, j \in 1..Len(add_log) :
        /\ add_log[i] = [group |-> Nm("neck"), vert |-> 0, channel |-> 0, local |-> 2,
                         weight |-> 70000]
        /\ add_log[j] = [group |-> <<"r", "_", "arm">>, vert |-> 0, channel |-> 1,
                         local |-> 5, weight |-> 30000]
    /\ sanitize_name(model.bones[0 + 1].name) # Nm("neck")
    /\ sanitize_name(model.bones[2 + 1].name) # Nm("neck")

Parented == mesh_obj.parent_type = "BONE"

Skinned == "ARMATURE" \in Range(mesh_obj.modifiers)

RigidCase ==
    /\ Driver # 0
    /\ model.bones[Driver].blend_bones = <<>>
    /\ mesh_data.blend_subset = <<>>

\* C4: once a created mesh object is bound to an existing armature it is either
\* parented to its driving bone or carries an Armature modifier, never both and
\* never neither; it is parented exactly in the rigid case (driving bone found,
\* no blend_bones, no blend_subset), and then no vertex weight is ever assigned.
C4_OneBindingStrategy ==
    (import_pc \in {"weights", "avw", "done", "cancelled"} /\ armature.exists /\ mesh_obj.exists)
    => /\ Parented # Skinned
       /\ Parented <=> RigidCase
       /\ Parented => mesh_obj.parent_bone = sanitize_name(model.bones[Driver].name)
       /\ RigidCase => add_log = <<>> /\ mesh_obj.vertex_groups = <<>>

C4_Witness ==
    /\ import_pc = "done" /\ avw.skipped = "rigid"
    /\ armature.exists /\ mesh_obj.exists
    /\ Parented /\ ~Skinned /\ RigidCase

C4_WitnessSkinned ==
    /\ import_pc = "done" /\ add_log # <<>>
    /\ armature.exists /\ mesh_obj.exists
    /\ Skinned /\ ~Parented /\ ~RigidCase

\* C5: when apply_vertex_weights has run on a mesh with a one-entry blend_subset
\* [k] and no per-vertex weight data, k in range and blend_bones[k] a bone of the
\* armature, every vertex of the mesh has weight 1.0 in the group of that bone.
C5_SingleBoneFullWeight ==
    (/\ import_pc = "done" /\ opts.apply_weights /\ armature.exists /\ mesh_obj.exists
     /\ Driver # 0
     /\ Len(mesh_data.blend_subset) = 1
     /\ NoWeightData
     /\ Resolvable(0))
    => \E g \in 1..Len(mesh_obj.vertex_groups) :
            /\ mesh_obj.vertex_groups[g].name = Resolved(0)
            /\ \A v \in 1..mesh_obj.nverts : mesh_obj.vertex_groups[g].w[v] = FullWeight

C5_Witness ==
    /\ Resolver_Done
    /\ mesh_data.blend_subset = <<1>>
    /\ DriverBlendBones = BB6
    /\ NoWeightData
    /\ mesh_obj.nverts = 2
    /\ mesh_obj.vertex_groups = <<[name |-> Nm("spine"), w |-> <<FullWeight, FullWeight>>]>>

\* the (vertex, channel) positions of the float lists whose channel resolves to
\* a bone of the armature
ResolvableSlots ==
    UNION {{<<v, c>> : c \in {d \in 0..(Len(geometry.weights[v + 1]) - 1) : Resolvable(d)}} :
             v \in 0..(Len(geometry.weights) - 1)}

SlotWeight(vc) == geometry.weights[vc[1] + 1][vc[2] + 1].w

Assigned(vc) == \E k \in 1..Len(add_log) : add_log[k].vert = vc[1] /\ add_log[k].channel = vc[2]

\* C6: when apply_vertex_weights has run, a resolvable contribution has been
\* assigned exactly when its weight is at least 0.0001.
C6_KeptFromEpsilon ==
    Resolver_Done => \A vc \in ResolvableSlots : Assigned(vc) <=> SlotWeight(vc) >= Epsilon

\* what the resolver has to assign: per resolvable slot with a significant weight,
\* that weight in the group of the resolved bone; 1.0 per vertex in the
\* single-bone case
ExpectedAdds ==
    IF Len(mesh_data.blend_subset) = 1 /\ NoWeightData
    THEN {[group |-> Resolved(0), vert |-> v, channel |-> 0, weight |-> FullWeight] :
            v \in {u \in 0..(mesh_obj.nverts - 1) : Resolvable(0)}}
    ELSE {[group |-> Resolved(vc[2]), vert |-> vc[1], channel |-> vc[2],
           weight |-> SlotWeight(vc)] :
            vc \in {s \in ResolvableSlots : SlotWeight(s) > Epsilon}}

ActualAdds ==
    {[group |-> add_log[k].group, vert |-> add_log[k].vert, channel |-> add_log[k].channel,
      weight |-> add_log[k].weight] : k \in 1..Len(add_log)}

BadSubsetEntries ==
    {k \in 1..Len(mesh_data.blend_subset) :
        mesh_data.blend_subset[k] \notin 0..(Len(DriverBlendBones) - 1)}

\* C7: when apply_vertex_weights has run, the vertex groups are those of the
\* in-range blend_subset entries only, and the weights assigned are exactly those
\* of the channels whose blend_subset entry is in range: an out-of-range entry
\* gives no group and no weight and takes nothing away from the other channels
\* and vertices.
C7_BadSubsetEntryDropped ==
    Resolver_Done =>
        /\ {mesh_obj.vertex_groups[g].name : g \in 1..Len(mesh_obj.vertex_groups)}
             = {Resolved(c) : c \in {d \in 0..(Len(mesh_data.blend_subset) - 1) : Resolvable(d)}}
        /\ ActualAdds = ExpectedAdds
        /\ Len(add_log) = Cardinality(ExpectedAdds)

C7_Witness ==
    /\ Resolver_Done
    /\ mesh_data.blend_subset = <<9, 0>>
    /\ BadSubsetEntries = {1}
    /\ geometry.weights = <<<<W(70000), W(30000)>>, <<W(20), W(5)>>>>
    /\ Len(mesh_obj.vertex_groups) = 1
    /\ mesh_obj.vertex_groups[1].w = <<30000, NotInGroup>>

\* C8: a weight entry whose channel is outside 0..len(blend_subset)-1 is never
\* assigned to any bone, and it never ends the import.
C8_BadChannelDropped ==
    /\ import_pc # "cancelled"
    /\ \A k \in 1..Len(add_log) :
            add_log[k].channel \in 0..(Len(mesh_data.blend_subset) - 1)

----------------------------------------------------------------------------
(* Specification SpecFields: read_file over files with one numeric          *)
(* directive, for every directive and every count of numbers up to the      *)
(* count the directive reads and MaxExtra more                              *)

MaxExtra == 1

\* <<block the directive stands in, keyword, the count of numbers it reads>>
Directives ==
    {<<"Model", "BoundingBox", 6>>,
     <<"Bone", "Translate", 3>>, <<"Bone", "RotateZYX", 3>>, <<"Bone", "RotateYXZ", 3>>,
     <<"Bone", "RotateQ", 4>>, <<"Bone", "Scale", 3>>,
     <<"Material", "Diffuse", 4>>, <<"Material", "Ambient", 4>>,
     <<"Layer", "Diffuse", 4>>, <<"Layer", "Ambient", 4>>, <<"Layer", "Specular", 4>>,
     <<"Layer", "Emission", 4>>,
     <<"Motion", "FrameRate", 1>>, <<"Motion", "FrameLoop", 2>>}

\* the block headers that lead from the Model block to the block of a directive
PathTo(block) ==
    CASE block = "Model" -> <<>>
      [] block = "Layer" -> <<Header("Material", <<"mt">>, TRUE), Header("Layer", <<"ly">>, TRUE)>>
      [] OTHER -> <<Header(block, <<"x">>, TRUE)>>

\* the directive with n numbers in its block, a bone "after" behind that block
FieldFile(d, n) ==
    <<Ln(".GMS"), Header("Model", <<"m">>, TRUE)>>
    \o PathTo(d[1])
    \o <<Numeric(d[2], [i \in 1..n |-> i])>>
    \o [i \in 1..Len(PathTo(d[1])) |-> Ln("}")]
    \o <<Header("Bone", <<"after">>, TRUE), Ln("}"), Ln("}")>>

FieldFiles == {FieldFile(d, n) : d \in Directives, n \in 0..(6 + MaxExtra)}

InitFields == (\E ls \in FieldFiles : ReaderStart(ls)) /\ SceneIdle

NextFields ==
    \/ ReadFile
    \/ ReadTopLevel
    \/ ParseModel
    \/ ParseBone
    \/ ParseMaterial
    \/ ParseLayer
    \/ ParseMotion

SpecFields == InitFields /\ [][NextFields]_vars

\* C11: a numeric directive with fewer numbers than it reads never makes the
\* parse fail: no read of such a file ends in an exception.
C11_ShortDirectiveDegrades == outcome \in {"start", "running", "returned"}

----------------------------------------------------------------------------
(* Documents: a Model block with one chain of nested blocks, up to          *)
(* MaxContent lines inside the innermost one, and a bone "after" behind the *)
(* chain                                                                     *)

MaxContent == 2

\* the nestings the reader decodes, outermost first, below the Model block
Chains ==
    {<<>>, <<"Bone">>, <<"Part">>, <<"Part", "Arrays">>, <<"Part", "Mesh">>, <<"Material">>,
     <<"Material", "Layer">>, <<"Material", "Layer", "Mesh">>, <<"Texture">>, <<"Motion">>}

DocHeader(kind) == [Header(kind, <<"n">>, TRUE) EXCEPT !.flags = <<"VERTEX">>]

DocAlphabet ==
    {Named("DrawPart", <<"p">>), Named("DrawPart", <<"q">>), Ln("DrawPart"),
     Numeric("data", <<1, 2, 3>>), Numeric("Translate", <<1, 2, 3>>),
     Header("FCurve", <<"f">>, TRUE), Header("Mesh", <<"in">>, TRUE), Ln("}")}

Doc(chain, content) ==
    <<Ln(".GMS"), Header("Model", <<"m">>, TRUE)>>
    \o [i \in 1..Len(chain) |-> DocHeader(chain[i])]
    \o content
    \o [i \in 1..Len(chain) |-> Ln("}")]
    \o <<Header("Bone", <<"after">>, TRUE), Named("DrawPart", <<"p">>), Ln("}"), Ln("}")>>

Docs(n) == {Doc(chain, content) : chain \in Chains, content \in SeqsUpTo(DocAlphabet, n)}

\* the number of blocks open in front of line i of ls (lines are counted from 1)
RECURSIVE DepthBefore(_, _)
DepthBefore(ls, i) ==
    IF i <= 1 THEN 0
    ELSE DepthBefore(ls, i - 1) + (IF ls[i - 1].brace THEN 1 ELSE 0)
                                - (IF ls[i - 1].kw = "}" THEN 1 ELSE 0)

\* every "}" closes an open block, and no block is open at the end
Balanced(ls) ==
    /\ \A i \in 1..Len(ls) : ls[i].kw = "}" => DepthBefore(ls, i) > 0
    /\ DepthBefore(ls, Len(ls) + 1) = 0

----------------------------------------------------------------------------
(* Specification SpecNested: read_file once over every document *)

InitNested == (\E ls \in Docs(MaxContent) : ReaderStart(ls)) /\ SceneIdle

SpecNested == InitNested /\ [][NextRead]_vars

\* the line that closes the block whose header is line h of ls, 0 when none does
ClosingLine(ls, h) ==
    LET after == {i \in (h + 1)..Len(ls) : DepthBefore(ls, i + 1) = DepthBefore(ls, h)}
    IN  IF after = {} THEN 0 ELSE CHOOSE i \in after : \A j \in after : i <= j

\* the names on the header lines of the given kind directly inside the block
\* whose header is line h of ls
ChildNames(ls, h, kind) ==
    LET at == {i \in (h + 1)..ClosingLine(ls, h) :
                   ls[i].kw = kind /\ ls[i].brace /\ DepthBefore(ls, i) = DepthBefore(ls, h) + 1}
    IN  {ls[i].name : i \in at}

BoneNames == {model.bones[i].name : i \in 1..Len(model.bones)}

\* C12: when read_file returns from a brace-balanced document, the cursor stands
\* behind the "}" of the Model block and every bone block directly inside the
\* Model block is in the Model, whatever block the chain before it holds.
C12_SiblingsSurvive ==
    (outcome = "returned" /\ Balanced(lines))
        => /\ current_line = ClosingLine(lines, 2)
           /\ ChildNames(lines, 2, "Bone") \subseteq BoneNames

----------------------------------------------------------------------------
(* A second read_gms_file call, on a fresh GMSReader, over the same text or *)
(* over an edited copy of it; prior keeps how the first call ended           *)

Finished == outcome \notin {"start", "running"}

Rerun(ls, how, at) ==
    /\ prior = NoPrior
    /\ Finished
    /\ prior' = [lines |-> lines, model |-> model, outcome |-> outcome, cl |-> current_line,
                 how |-> how, at |-> at]
    /\ lines' = ls
    /\ current_line' = 0
    /\ stack' = <<>>
    /\ model' = NewModel
    /\ outcome' = "start"
    /\ open_at_eof' = FALSE
    /\ arr_log' = <<>>
    /\ UNCHANGED sceneVars

\* ls with the "{" of header line i moved to a line of its own
SplitBrace(ls, i) ==
    SubSeq(ls, 1, i - 1) \o <<[ls[i] EXCEPT !.brace = FALSE], Ln("{")>>
                         \o SubSeq(ls, i + 1, Len(ls))

RerunSplit ==
    \E i \in 1..Len(lines) :
        /\ lines[i].kw \in BlockKinds /\ lines[i].brace
        /\ Rerun(SplitBrace(lines, i), "split", i)

----------------------------------------------------------------------------
(* Specification SpecSplit: every document is read, then read again with    *)
(* the "{" of one block header on a line of its own                          *)

NextSplit == NextRead \/ RerunSplit

SpecSplit == InitNested /\ [][NextSplit]_vars

\* the cursor that stands, in the edited copy, on the line cursor c stood on
SameLine(c) == IF c >= prior.at THEN c + 1 ELSE c

\* C13: a document read with the "{" of one block header (Model, Bone, Part,
\* Arrays, Material, Layer, Mesh, Texture or Motion) moved to the next line ends
\* as the document itself ends; when it returns, the two Models are equal and
\* cursor stands on the same following line (one further when that line lies
\* behind the header).
C13_BraceOnNextLine ==
    (prior # NoPrior /\ prior.how = "split" /\ Finished)
        => /\ outcome = prior.outcome
           /\ outcome = "returned" => (model = prior.model /\ current_line = SameLine(prior.cl))

\* a returned second run whose split header was an Arrays header in front of decoded data
C13_Witness ==
    /\ prior # NoPrior /\ prior.how = "split" /\ outcome = "returned"
    /\ prior.lines[prior.at].kw = "Arrays"
    /\ arr_log # <<>>
    /\ model.arrays_dict # {}

----------------------------------------------------------------------------
(* Specification SpecBlank: every document, with the "{" of its headers on  *)
(* the header line or with one of them on the next line, is read, then read *)
(* again with one blank or comment line put in behind the ".GMS" line        *)

MaxPadded == 1

HeaderLines(ls) == {i \in 1..Len(ls) : ls[i].kw \in BlockKinds /\ ls[i].brace}

InitBlank ==
    /\ \E ls \in Docs(MaxPadded) :
           \/ ReaderStart(ls)
           \/ \E i \in HeaderLines(ls) : ReaderStart(SplitBrace(ls, i))
    /\ SceneIdle

\* ls with line pad put in behind line i
InsertAfter(ls, i, pad) == SubSeq(ls, 1, i) \o <<pad>> \o SubSeq(ls, i + 1, Len(ls))

RerunPadded ==
    \E i \in 1..Len(lines), pad \in {Ln(""), Ln("//")} :
        Rerun(InsertAfter(lines, i, pad), "padded", i)

NextBlank == NextRead \/ RerunPadded

SpecBlank == InitBlank /\ [][NextBlank]_vars

\* C14: a document that read_file returns a Model for is still read without an
\* error, and to an equal Model, after a blank line or a "//" line is put in at
\* any place behind the ".GMS" line.
C14_BlankLinesTransparent ==
    (prior # NoPrior /\ prior.how = "padded" /\ prior.outcome = "returned" /\ Finished)
        => (outcome = "returned" /\ model = prior.model)

----------------------------------------------------------------------------
(* Specification SpecTwice: every document is read twice, each time by a    *)
(* fresh GMSReader                                                           *)

RerunSame ==
    /\ Finished
    /\ Rerun(lines, "same", 0)

NextTwice == NextRead \/ RerunSame

SpecTwice == InitNested /\ [][NextTwice]_vars

C18_WitnessFailed ==
    /\ prior # NoPrior /\ prior.how = "same" /\ Finished
    /\ outcome # "returned"

----------------------------------------------------------------------------
(* part_to_bone against the text of the document (specification SpecNested) *)

\* the header line of the block that line j of ls lies directly in, 0 when none
Encloser(ls, j) ==
    LET hs == {i \in 1..(j - 1) : ls[i].brace /\ DepthBefore(ls, i) = DepthBefore(ls, j) - 1}
    IN  IF hs = {} THEN 0 ELSE CHOOSE i \in hs : \A k \in hs : k <= i

\* the block kinds each routine decodes inside its own block
DecodedIn(kw) ==
    CASE kw = "Model" -> {"Bone", "Part", "Material", "Texture", "Motion"}
      [] kw = "Part" -> {"Mesh", "Arrays"}
      [] kw = "Material" -> {"Layer"}
      [] kw = "Layer" -> {"Mesh"}
      [] OTHER -> {}

\* every line that opens a block is a header some routine decodes where it stands
Plain(ls) ==
    \A i \in 2..Len(ls) :
        ls[i].brace =>
            IF DepthBefore(ls, i) = 0 THEN ls[i].kw = "Model"
            ELSE ls[i].kw \in DecodedIn(ls[Encloser(ls, i)].kw)

\* the named DrawPart lines that lie directly in a Bone block of the Model block
DrawPartLines(ls) ==
    {j \in 3..Len(ls) :
        /\ ls[j].kw = "DrawPart" /\ ls[j].name # EmptyStr
        /\ DepthBefore(ls, j) = 2
        /\ ls[Encloser(ls, j)].kw = "Bone"}

\* part name -> the bone of the last DrawPart line that names the part
LastDrawPart(ls) ==
    {<<ls[j].name, ls[Encloser(ls, j)].name>> :
        j \in {j \in DrawPartLines(ls) :
                  \A k \in DrawPartLines(ls) : ls[k].name = ls[j].name => k <= j}}

\* a Bone header named b stands in front of a DrawPart line naming p with no "}"
\* line between the two
Carries(ls, b, p) ==
    \E i \in 1..Len(ls), j \in 1..Len(ls) :
        /\ i < j
        /\ ls[i].kw = "Bone" /\ ls[i].name = b
        /\ ls[j].kw = "DrawPart" /\ ls[j].name = p
        /\ \A k \in (i + 1)..(j - 1) : ls[k].kw # "}"

----------------------------------------------------------------------------
(* Specification SpecArmature: create_armature over Models of up to MaxBones *)
(* bones with integer translations and quarter-turn rotations, in both       *)
(* coordinate systems and with two scale factors                             *)

MaxBones == 3

Translations == {<<1, 0, 0>>, <<0, 2, 0>>, <<0, 0, 3>>}

\* (rotation, rotation_quaternion): no rotation, a quarter turn about X, Y or Z,
\* and a quaternion of a quarter turn about X
Turns ==
    {<<r, <<>>>> : r \in {<<0, 0, 0>>, <<1, 0, 0>>, <<0, 1, 0>>, <<0, 0, 1>>}}
        \cup {<<(<<0, 0, 0>>), (<<1, 1, 0, 0>>)>>}

BoneOf(name, parent_name, translation, turn) ==
    [NewBone EXCEPT !.name = name, !.parent_name = parent_name, !.translation = translation,
                    !.rotation = turn[1], !.rotation_quaternion = turn[2]]

\* the first bone may name the second as its parent, the second the first, a
\* later one or none of the Model ("ghost"), and may repeat the first one's name
FirstBones ==
    {BoneOf(Nm("a"), p, t, r) :
        p \in {EmptyStr, Nm("b")}, t \in Translations,
        r \in {<<(<<0, 0, 0>>), (<<>>)>>, <<(<<0, 0, 1>>), (<<>>)>>, <<(<<0, 0, 0>>), (<<1, 1, 0, 0>>)>>}}

SecondBones ==
    {BoneOf(n, p, t, r) : n \in {Nm("b"), Nm("a")}, p \in {EmptyStr, Nm("a"), Nm("ghost"), Nm("c")},
                          t \in Translations, r \in Turns}

LaterBones == {BoneOf(Nm("c"), p, <<1, 0, 0>>, <<(<<0, 0, 1>>), (<<>>)>>) : p \in {Nm("a"), Nm("b")}}

RECURSIVE BoneLists(_)
BoneLists(n) ==
    IF n = 1 THEN {<<b>> : b \in FirstBones}
    ELSE IF n = 2 THEN {<<a, b>> : a \in FirstBones, b \in SecondBones}
    ELSE {Append(bs, b) : bs \in BoneLists(n - 1), b \in LaterBones}

ArmatureStart(bones, coordinate_system, scale) ==
    /\ lines = <<>>
    /\ prior = NoPrior
    /\ current_line = 0
    /\ stack = <<>>
    /\ outcome = "returned"
    /\ open_at_eof = FALSE
    /\ arr_log = <<>>
    /\ model = [NewModel EXCEPT !.name = Nm("m"), !.bones = bones]
    /\ opts = [DefaultOpts EXCEPT !.coordinate_system = coordinate_system, !.scale = scale]
    /\ import_pc = "armature"
    /\ mesh_data = NewMesh
    /\ geometry = NoGeometry
    /\ armature = NoArmature
    /\ mesh_obj = NoMeshObj
    /\ avw = IdleAvw
    /\ add_log = <<>>

InitArmature ==
    \E n \in 1..MaxBones : \E bones \in BoneLists(n) :
        \E coordinate_system \in {"BLENDER", "PSP"}, scale \in {1, 2} :
            ArmatureStart(bones, coordinate_system, scale)

NextArmature == CreateArmature

SpecArmature == InitArmature /\ [][NextArmature]_vars

\* the last bone in front of bone i that bears the parent name of bone i, 0 when
\* bone i has no parent name or no bone in front of it bears it
ResolvedParent(i) ==
    LET want == model.bones[i].parent_name
        hits == {j \in 1..(i - 1) : sanitize_name(model.bones[j].name) = sanitize_name(want)}
    IN  IF want = EmptyStr \/ hits = {} THEN 0 ELSE CHOOSE j \in hits : \A k \in hits : k <= j

ScaledTranslation(i) ==
    <<model.bones[i].translation[1] * opts.scale, model.bones[i].translation[2] * opts.scale,
      model.bones[i].translation[3] * opts.scale>>

\* C15: a bone whose parent name resolves to a bone declared before it is
\* linked to that bone; its world rotation is the parent's world rotation times
\* its own, and its world position is the parent's world position plus the
\* parent's world rotation applied to its scaled translation.
C15_WorldIsParentTimesLocal ==
    armature.exists =>
        \A i \in 1..Len(model.bones) :
            ResolvedParent(i) # 0 =>
                LET parent == armature.edit_bones[ResolvedParent(i)]
                    bone == armature.edit_bones[i]
                IN  /\ bone.parent = ResolvedParent(i)
                    /\ bone.world.rot = MatMul(parent.world.rot, RotationOf(model.bones[i]))
                    /\ bone.world.trans =
                           Vec3Add(parent.world.trans, MatVec(parent.world.rot, ScaledTranslation(i)))

\* the parent at (1, 0, 0) turned a quarter about Z, the child 2 along Y: the
\* child stands at (-1, 0, 0), not at the sum (1, 2, 0)
C15_Witness ==
    /\ armature.exists /\ opts.scale = 1 /\ Len(model.bones) = 2
    /\ model.bones[1].translation = <<1, 0, 0>> /\ model.bones[1].rotation = <<0, 0, 1>>
    /\ model.bones[2].translation = <<0, 2, 0>>
    /\ armature.edit_bones[2].parent = 1
    /\ armature.edit_bones[2].world.trans = <<-1, 0, 0>>

\* C16: the world matrix kept for every bone is the one create_armature keeps
\* with coordinate_system = 'PSP', its translation is unconverted, and the head
\* is the conversion of the head that 'PSP' gives.
C16_ConvertOnlyFinalPosition ==
    armature.exists =>
        LET psp == ArmatureLoop(model, Len(model.bones), "PSP", opts.scale).edit_bones
        IN  \A i \in 1..Len(model.bones) :
                /\ armature.edit_bones[i].world = psp[i].world
                /\ armature.edit_bones[i].head =
                       convert_coordinate_system(psp[i].head, opts.coordinate_system)
                /\ psp[i].head = psp[i].world.trans

\* 'BLENDER', and a child of a turned parent whose head differs from its
\* unconverted world position
C16_Witness ==
    /\ armature.exists /\ opts.coordinate_system = "BLENDER"
    /\ \E i \in 1..Len(model.bones) :
           /\ armature.edit_bones[i].parent # 0
           /\ model.bones[armature.edit_bones[i].parent].rotation # <<0, 0, 0>>
           /\ armature.edit_bones[i].head # armature.edit_bones[i].world.trans

\* C17: every bone of the Model gets an edit bone; a bone without a parent
\* name, or whose parent name is borne by no bone declared before it, has no
\* parent link and its local matrix as world matrix.
C17_DanglingParentIsRoot ==
    armature.exists =>
        /\ Len(armature.edit_bones) = Len(model.bones)
        /\ \A i \in 1..Len(model.bones) :
               ResolvedParent(i) = 0 =>
                   /\ armature.edit_bones[i].parent = 0
                   /\ armature.edit_bones[i].world = LocalMatrix(model.bones[i], opts.scale)

\* the first bone names the second as parent, the second names "ghost", the
\* third is a child of the second: three edit bones, two of them roots
C17_Witness ==
    /\ armature.exists /\ Len(armature.edit_bones) = 3
    /\ model.bones[1].parent_name = Nm("b")
    /\ model.bones[2].name = Nm("b") /\ model.bones[2].parent_name = Nm("ghost")
    /\ armature.edit_bones[1].parent = 0 /\ armature.edit_bones[2].parent = 0
    /\ armature.edit_bones[3].parent = 2

----------------------------------------------------------------------------
(* Specification SpecFrame: the passes after the parse over a Model whose   *)
(* part "body_Part" holds the mesh "body_Mesh", drawn from the array "arr"  *)
(* of FrameVerts vertices by one draw command                                *)

FrameVerts == 3

FrameArray(weighted) ==
    [NewVertexData EXCEPT
        !.positions = [i \in 1..FrameVerts |-> <<i, 2 * i, 3 * i>>],
        !.normals = [i \in 1..FrameVerts |-> <<0, 1, 0>>],
        !.weights = IF weighted THEN [i \in 1..FrameVerts |-> <<W(70000), W(30000)>>] ELSE <<>>]

\* one triangle, or one with an index behind the array, or before its start
FrameCommands ==
    {[NewDrawArraysCommand EXCEPT !.arrays_name = n, !.primitive_type = t, !.vertex_count = 3,
                                  !.vertex_count_per_primitive = 3, !.primitive_count = 1,
                                  !.indices = ix] :
        n \in {Nm("arr"), Nm("none")}, t \in {"TRIANGLES", "TRIANGLE_STRIP"},
        ix \in {<<0, 1, 2>>, <<0, 1, FrameVerts + 2>>, <<0, -1, -(FrameVerts + 1)>>}}

FrameScenes ==
    [bb : {<<Nm("hip")>>, BB6}, bs : {<<>>, <<0>>, <<0, 1>>}, ptb : PartToBoneChoices,
     opts : [import_armature : BOOLEAN, apply_weights : BOOLEAN,
             coordinate_system : {"BLENDER", "PSP"}, scale : {1}],
     cmd : FrameCommands, weighted : BOOLEAN]

FrameMesh(sc) ==
    [NewMesh EXCEPT !.name = BodyMesh, !.blend_subset = sc.bs, !.draw_arrays = <<sc.cmd>>,
                    !.part_arrays = {<<Nm("arr"), FrameArray(sc.weighted)>>}]

FrameStart(sc) ==
    /\ lines = <<>>
    /\ prior = NoPrior
    /\ current_line = 0
    /\ stack = <<>>
    /\ outcome = "returned"
    /\ open_at_eof = FALSE
    /\ arr_log = <<>>
    /\ model = [SceneModel(sc.bb, sc.ptb) EXCEPT
                   !.arrays_dict = {<<Nm("arr"), FrameArray(sc.weighted)>>},
                   !.parts = <<[NewPart EXCEPT !.name = BodyPart, !.meshes = <<FrameMesh(sc)>>]>>]
    /\ opts = sc.opts
    /\ import_pc = "armature"
    /\ mesh_data = FrameMesh(sc)
    /\ geometry = NotBuilt
    /\ armature = NoArmature
    /\ mesh_obj = NoMeshObj
    /\ avw = IdleAvw
    /\ add_log = <<>>

InitFrame == \E sc \in FrameScenes : FrameStart(sc)

SpecFrame == InitFrame /\ [][NextImport]_vars

\* C19: no step of create_armature, of create_mesh_object with its
\* build_mesh_geometry, of the binding or of apply_vertex_weights changes the
\* Model or the mesh of it that is being processed.
C19_ModelReadOnly == [][model' = model /\ mesh_data' = mesh_data]_vars

\* the passes ran to the end and assigned weights, the Model still holds them
C19_Witness ==
    /\ import_pc = "done" /\ avw.pc = "return" /\ avw.skipped = ""
    /\ geometry.nverts = FrameVerts
    /\ mesh_obj.vertex_groups # <<>>
    /\ DictGet(model.arrays_dict, Nm("arr")).weights # <<>>
    /\ mesh_data = model.parts[1].meshes[1]

\* apply_vertex_weights returned early
C19_WitnessEarlyReturn == import_pc = "done" /\ avw.skipped # "" /\ model.parts # <<>>

\* build_mesh_geometry raised and the import was cancelled
C19_WitnessCancelled == import_pc = "cancelled" /\ geometry.error # "" /\ model.parts # <<>>

----------------------------------------------------------------------------
(* Specification SpecOwner: the passes after the parse over a Model with the *)
(* parts "body_Part" and "head_Part", each drawn by a bone of its own; the   *)
(* mesh being processed lies in the first part and bears one of several names *)

HeadPart == <<"head", "_Part">>

OwnerMeshNames ==
    {BodyMesh, <<"head", "_Mesh">>, <<"skin">>, <<"body", "_Mesh", "_Mesh">>}

OwnerPartNames == {BodyPart, <<"bo", ":", "dy", "_Part">>, <<"body", "_Mesh", "_Part">>}

OwnerScenes ==
    [mesh_name : OwnerMeshNames \cup {<<"bo", ":", "dy", "_Mesh">>}, part_name : OwnerPartNames,
     bb1 : {<<>>, <<Nm("hip")>>}, bb2 : {<<>>, <<Nm("spine")>>}, bs : {<<>>, <<0>>},
     head_drawn : BOOLEAN, apply_weights : BOOLEAN]

OwnerMesh(sc) ==
    [NewMesh EXCEPT !.name = sc.mesh_name, !.blend_subset = sc.bs,
                    !.draw_arrays = <<[NewDrawArraysCommand EXCEPT
                                         !.arrays_name = Nm("arr"), !.primitive_type = "TRIANGLES",
                                         !.vertex_count = 3, !.vertex_count_per_primitive = 3,
                                         !.primitive_count = 1, !.indices = <<0, 1, 2>>]>>,
                    !.part_arrays = {<<Nm("arr"), FrameArray(TRUE)>>}]

OwnerModel(sc) ==
    LET names == <<Nm("root"), Nm("second"), Nm("hip"), Nm("spine")>>
        bones == [i \in 1..Len(names) |->
                    [NewBone EXCEPT !.name = names[i],
                                    !.blend_bones = CASE i = 1 -> sc.bb1 [] i = 2 -> sc.bb2
                                                      [] OTHER -> <<>>]]
    IN  [NewModel EXCEPT
            !.name = Nm("m"),
            !.bones = bones,
            !.bone_dict = {<<names[i], i - 1>> : i \in 1..Len(names)},
            !.arrays_dict = {<<Nm("arr"), FrameArray(TRUE)>>},
            !.parts = <<[NewPart EXCEPT !.name = sc.part_name, !.meshes = <<OwnerMesh(sc)>>],
                        [NewPart EXCEPT !.name = HeadPart]>>,
            !.part_to_bone = {<<sc.part_name, Nm("root")>>}
                                \cup (IF sc.head_drawn /\ sc.part_name # HeadPart
                                      THEN {<<HeadPart, Nm("second")>>} ELSE {})]

OwnerStart(sc) ==
    /\ lines = <<>>
    /\ prior = NoPrior
    /\ current_line = 0
    /\ stack = <<>>
    /\ outcome = "returned"
    /\ open_at_eof = FALSE
    /\ arr_log = <<>>
    /\ model = OwnerModel(sc)
    /\ opts = [DefaultOpts EXCEPT !.apply_weights = sc.apply_weights]
    /\ import_pc = "armature"
    /\ mesh_data = OwnerMesh(sc)
    /\ geometry = NotBuilt
    /\ armature = NoArmature
    /\ mesh_obj = NoMeshObj
    /\ avw = IdleAvw
    /\ add_log = <<>>

InitOwner == \E sc \in OwnerScenes : OwnerStart(sc)

SpecOwner == InitOwner /\ [][NextImport]_vars

\* the name of the Part whose mesh list holds the mesh being processed
OwnerPartName ==
    LET owners == {i \in 1..Len(model.parts) : mesh_data \in Range(model.parts[i].meshes)}
    IN  model.parts[CHOOSE i \in owners : TRUE].name

OwnerBoneName == DictGet(model.part_to_bone, OwnerPartName)

OwnerBlendBones ==
    IF FindBone(model, OwnerBoneName) = 0 THEN <<>>
    ELSE model.bones[FindBone(model, OwnerBoneName)].blend_bones

\* C21: once a created mesh has been bound, the bone name both passes look up
\* for it is part_to_bone[name of the part that holds the mesh]; a rigid mesh
\* is parented to that bone, and apply_vertex_weights resolves through that
\* bone's BlendBones.
C21_DrivingBoneOfOwningPart ==
    (import_pc \in {"weights", "avw", "done"} /\ mesh_obj.exists /\ armature.exists)
        => /\ ParentBoneName(model, mesh_obj.name) = OwnerBoneName
           /\ mesh_obj.parent_type = "BONE" => mesh_obj.parent_bone = sanitize_name(OwnerBoneName)
           /\ avw.pc \in {"groups", "case", "weights", "cleanup"} => avw.blend_bones = OwnerBlendBones

----------------------------------------------------------------------------
(* Specification SpecShapes: the import over meshes whose vertices carry     *)
(* dense weight arrays, (channel, weight) pair lists, or one of each         *)

\* the pair list [(0, w[0]), (1, w[1]), ...] of a dense array w
PairForm(w) == [k \in 1..Len(w) |-> P(k - 1, w[k].w)]

ShapeDense == {<<W(70000), W(30000)>>, <<W(30000), W(70000), W(20)>>, <<W(0), W(100000)>>}

ShapeEntries == {<<>>} \cup ShapeDense \cup {PairForm(w) : w \in ShapeDense}

ShapeTail == {<<W(20000), W(80000)>>, PairForm(<<W(20000), W(80000)>>)}

InitShapes == \E sc \in Scenes(ShapeEntries, ShapeTail) : SceneStart(sc)

SpecShapes == InitShapes /\ [][NextImport]_vars

IsDense(vert_weights) == \A k \in 1..Len(vert_weights) : ~vert_weights[k].pair

\* the shape of the mesh's first vertex that has weights
MeshIsPairs(weights) ==
    LET some == {v \in 1..Len(weights) : weights[v] # <<>>}
    IN  /\ some # {}
        /\ weights[CHOOSE v \in some : \A u \in some : v <= u][1].pair

\* the vg.add calls made for vertex vert_idx, in order
AddsFor(vert_idx) == SelectSeq(add_log, LAMBDA e : e.vert = vert_idx)

\* the vg.add calls the inner loop makes for vertex vert_idx over the given entries
AddsOver(vert_idx, entries) ==
    EntriesFrom([vgs |-> mesh_obj.vertex_groups, log |-> <<>>, raised |-> ""],
                avw.blend_subset, avw.bone_groups, vert_idx, entries, 1).log

\* C22, first half: a vertex given as the dense array w has received the vg.add
\* calls that the pair list [(0,w[0]),(1,w[1]),...] resolves to.
C22_DenseAsPairs ==
    (import_pc = "avw" /\ avw.pc \in {"weights", "cleanup"})
        => \A v \in 0..(avw.vert_idx - 1) :
              IsDense(At0(avw.weights, v))
                  => AddsFor(v) = AddsOver(v, IterWeightEntries(PairForm(At0(avw.weights, v))))

\* C22: both weight-entry shapes resolve identically, and every vertex of a mesh
\* is read in one shape, the one decided for the mesh.
C22_ShapeDecidedOncePerMesh ==
    /\ C22_DenseAsPairs
    /\ (import_pc = "avw" /\ avw.pc \in {"weights", "cleanup"})
          => \A v \in 0..(avw.vert_idx - 1) :
                AddsFor(v) = AddsOver(v, IterFrom(At0(avw.weights, v), MeshIsPairs(avw.weights), 1))

----------------------------------------------------------------------------
(* Specification SpecGeo: the passes after the parse over a mesh of          *)
(* 1..MaxCmds draw commands on the array "arr" of GeoVerts vertices          *)

GeoVerts == 4

MaxCmds == 2

GeoArray ==
    [NewVertexData EXCEPT
        !.positions = [i \in 1..GeoVerts |-> <<i, 2 * i, 3 * i>>],
        !.normals = [i \in 1..GeoVerts |-> <<0, 1, 0>>],
        !.uvs = [i \in 1..GeoVerts |-> <<i, 0>>],
        !.weights = [i \in 1..GeoVerts |-> <<W(10000 * i)>>]]

\* primitive type, vertices per primitive, primitive count and indices: whole
\* triangles, strips and fans; an index behind the array, one that counts from
\* its end, one before its start; strips that repeat an index
GeoShapes ==
    {<<"TRIANGLES", 3, 1, <<0, 1, 2>>>>,
     <<"TRIANGLES", 3, 2, <<0, 1, 2, 2, 1, 3>>>>,
     <<"TRIANGLES", 3, 1, <<0, 1, GeoVerts + 1>>>>,
     <<"TRIANGLES", 3, 1, <<GeoVerts, 1, 2>>>>,
     <<"TRIANGLES", 3, 1, <<0, -1, 2>>>>,
     <<"TRIANGLES", 3, 1, <<0, 1, -(GeoVerts + 1)>>>>,
     <<"TRIANGLE_STRIP", 4, 1, <<0, 1, 2, 3>>>>,
     <<"TRIANGLE_STRIP", 4, 1, <<0, 1, 1, 2>>>>,
     <<"TRIANGLE_STRIP", 5, 1, <<0, 1, 2, 2, 3>>>>,
     <<"TRIANGLE_STRIP", 4, 1, <<0, 1, 2, GeoVerts>>>>,
     <<"TRIANGLE_FAN", 4, 1, <<0, 1, 2, 3>>>>}

GeoCommand(n, sh) ==
    [NewDrawArraysCommand EXCEPT !.arrays_name = n, !.primitive_type = sh[1],
                                 !.vertex_count = sh[2] * sh[3],
                                 !.vertex_count_per_primitive = sh[2],
                                 !.primitive_count = sh[3], !.indices = sh[4]]

\* every shape on the array "arr", two of them on an array the Model lacks
GeoCommands ==
    {GeoCommand(Nm("arr"), sh) : sh \in GeoShapes}
    \cup {GeoCommand(Nm("none"), sh) :
            sh \in {<<"TRIANGLES", 3, 1, <<0, 1, 2>>>>, <<"TRIANGLE_STRIP", 4, 1, <<0, 1, 2, 3>>>>}}

GeoScenes(n) ==
    [cmds : SeqsUpTo(GeoCommands, n) \ {<<>>}, coordinate_system : {"BLENDER", "PSP"}]

GeoMesh(sc) ==
    [NewMesh EXCEPT !.name = BodyMesh, !.blend_subset = <<0>>, !.draw_arrays = sc.cmds,
                    !.part_arrays = {<<Nm("arr"), GeoArray>>}]

GeoStart(sc) ==
    /\ lines = <<>>
    /\ prior = NoPrior
    /\ current_line = 0
    /\ stack = <<>>
    /\ outcome = "returned"
    /\ open_at_eof = FALSE
    /\ arr_log = <<>>
    /\ model = [SceneModel(<<Nm("hip")>>, {<<BodyPart, Nm("root")>>}) EXCEPT
                   !.arrays_dict = {<<Nm("arr"), GeoArray>>},
                   !.parts = <<[NewPart EXCEPT !.name = BodyPart, !.meshes = <<GeoMesh(sc)>>]>>]
    /\ opts = [DefaultOpts EXCEPT !.coordinate_system = sc.coordinate_system]
    /\ import_pc = "armature"
    /\ mesh_data = GeoMesh(sc)
    /\ geometry = NotBuilt
    /\ armature = NoArmature
    /\ mesh_obj = NoMeshObj
    /\ avw = IdleAvw
    /\ add_log = <<>>

InitGeo == \E sc \in GeoScenes(MaxCmds) : GeoStart(sc)

SpecGeo == InitGeo /\ [][NextImport]_vars

\* the five lists and the exception build_mesh_geometry ended with
ListsOf(geo) ==
    [vertices |-> geo.vertices, faces |-> geo.faces, uvs |-> geo.uvs, normals |-> geo.normals,
     weights |-> geo.weights, error |-> geo.error]

Known(draw_cmd) == DictHas(model.arrays_dict, draw_cmd.arrays_name)

\* C23: a draw command whose arrays_name is no key of arrays_dict adds nothing
\* and does not abort: build_mesh_geometry returns what it returns for the mesh
\* without those commands.
C23_MissingArraysSkipped ==
    geometry.built
        => ListsOf(geometry)
             = build_mesh_geometry([mesh_data EXCEPT !.draw_arrays = SelectSeq(@, Known)],
                                   model, opts.coordinate_system, opts.scale)

\* a command on a missing array stands before and after commands that drew vertices
C23_Witness ==
    /\ geometry.built /\ geometry.error = "" /\ geometry.nverts > 0 /\ geometry.nfaces > 0
    /\ Len(mesh_data.draw_arrays) >= 2
    /\ \E i, j \in 1..Len(mesh_data.draw_arrays) :
          i # j /\ ~Known(mesh_data.draw_arrays[i]) /\ Known(mesh_data.draw_arrays[j])

\* the draw indices build_mesh_geometry walks through, each with its array's
\* name: those of the primitives of every command whose array exists
RECURSIVE DrawIndices(_, _)
DrawIndices(cmds, n) ==
    IF n = 0 THEN <<>>
    ELSE LET cmd == cmds[n]
             ix == PySlice(cmd.indices, 0, cmd.primitive_count * cmd.vertex_count_per_primitive)
         IN  DrawIndices(cmds, n - 1)
                \o (IF Known(cmd) THEN [k \in 1..Len(ix) |-> [arrays_name |-> cmd.arrays_name,
                                                                idx |-> ix[k]]]
                    ELSE <<>>)

PositionsOf(arrays_name) == DictGet(model.arrays_dict, arrays_name).positions

InRange(d) == 0 <= d.idx /\ d.idx < Len(PositionsOf(d.arrays_name))

\* C25: every index of every face returned by build_mesh_geometry is the index
\* of a returned vertex (for a mesh of one primitive: lies between the
\* primitive's base index 0 and the number of vertices the primitive added).
C25_FacesReferToVertices ==
    (geometry.built /\ geometry.error = "")
        => \A f \in Range(geometry.faces) : \A k \in 1..3 : 0 <= f[k] /\ f[k] < geometry.nverts

\* C27: build_mesh_geometry raises nothing, and its vertices are the converted
\* positions[i] of the draw indices i with 0 <= i < len(positions), in order;
\* no uv, normal or weight entry is emitted for any other index.
C27_OnlyInRangeIndicesEmit ==
    geometry.built
        => LET kept == SelectSeq(DrawIndices(mesh_data.draw_arrays, Len(mesh_data.draw_arrays)),
                                 InRange)
           IN  /\ geometry.error = ""
               /\ geometry.vertices
                    = [k \in 1..Len(kept) |->
                         apply_scale(convert_coordinate_system(
                                         PositionsOf(kept[k].arrays_name)[kept[k].idx + 1],
                                         opts.coordinate_system), opts.scale)]
               /\ Len(geometry.uvs) = Len(kept)
               /\ Len(geometry.normals) = Len(kept)
               /\ Len(geometry.weights) = Len(kept)

\* the mesh is one TRIANGLE_STRIP primitive whose draw indices are all in range
OneStrip ==
    /\ Len(mesh_data.draw_arrays) = 1
    /\ Known(mesh_data.draw_arrays[1])
    /\ mesh_data.draw_arrays[1].primitive_type = "TRIANGLE_STRIP"
    /\ mesh_data.draw_arrays[1].primitive_count = 1
    /\ mesh_data.draw_arrays[1].vertex_count_per_primitive = Len(mesh_data.draw_arrays[1].indices)
    /\ \A k \in 1..Len(mesh_data.draw_arrays[1].indices) :
          InRange([arrays_name |-> mesh_data.draw_arrays[1].arrays_name,
                   idx |-> mesh_data.draw_arrays[1].indices[k]])

\* C28: of a TRIANGLE_STRIP, a window of three consecutive draw indices that
\* are not pairwise distinct yields no face, and every other window yields one
\* face, wound by the parity of the window's position.
C28_DegenerateWindowsDropped ==
    (geometry.built /\ geometry.error = "" /\ OneStrip)
        => LET ix == mesh_data.draw_arrays[1].indices
               proper == {k \in 1..(Len(ix) - 2) :
                            ix[k] # ix[k + 1] /\ ix[k + 1] # ix[k + 2] /\ ix[k] # ix[k + 2]}
           IN  /\ geometry.nfaces = Cardinality(proper)
               /\ \A k \in proper :
                     (IF (k - 1) % 2 = 0 THEN <<k - 1, k, k + 1>> ELSE <<k, k - 1, k + 1>>)
                        \in Range(geometry.faces)

----------------------------------------------------------------------------
(* Specification SpecPair: one GMSReader reads its file alone; then a fresh  *)
(* GMSReader on that file and a second GMSReader on another file run with    *)
(* their steps interleaved. The reader variables hold the reader that is     *)
(* running, prior holds the waiting one and how the first run alone ended    *)

PairFiles == Docs(0)

InitPair == (\E ls \in PairFiles : ReaderStart(ls)) /\ SceneIdle

\* GMSReader.__init__ twice: two instances, each with its own lines, cursor and Model()
StartPair ==
    /\ prior = NoPrior
    /\ Finished
    /\ \E other \in PairFiles :
          prior' = [lines |-> other, model |-> NewModel, outcome |-> "start", cl |-> 0,
                    stack |-> <<>>, eof |-> FALSE, log |-> <<>>, how |-> "pair", at |-> 0,
                    running |-> 1,
                    alone |-> [model |-> model, outcome |-> outcome, cl |-> current_line]]
    /\ current_line' = 0
    /\ stack' = <<>>
    /\ model' = NewModel
    /\ outcome' = "start"
    /\ open_at_eof' = FALSE
    /\ arr_log' = <<>>
    /\ UNCHANGED <<lines, sceneVars>>

\* the scheduler lets the other reader take its next steps
Switch ==
    /\ prior # NoPrior
    /\ prior.how = "pair"
    /\ prior' = [prior EXCEPT !.lines = lines, !.model = model, !.outcome = outcome,
                              !.cl = current_line, !.stack = stack, !.eof = open_at_eof,
                              !.log = arr_log, !.running = 3 - @]
    /\ lines' = prior.lines
    /\ current_line' = prior.cl
    /\ stack' = prior.stack
    /\ model' = prior.model
    /\ outcome' = prior.outcome
    /\ open_at_eof' = prior.eof
    /\ arr_log' = prior.log
    /\ UNCHANGED sceneVars

NextPair == NextRead \/ StartPair \/ Switch

SpecPair == InitPair /\ [][NextPair]_vars

Paired == prior # NoPrior /\ prior.how = "pair"

\* how the first reader of the pair stands: its Model, outcome and cursor
FirstOfPair ==
    IF prior.running = 1
    THEN [model |-> model, outcome |-> outcome, cl |-> current_line]
    ELSE [model |-> prior.model, outcome |-> prior.outcome, cl |-> prior.cl]

C24_WitnessFinished ==
    /\ Paired
    /\ outcome = "returned" /\ prior.outcome = "returned"
    /\ model # prior.model
    /\ model.bones # <<>> /\ prior.model.bones # <<>>

----------------------------------------------------------------------------
(* Specification SpecTerm: read_file over the shorter files of SpecRead and  *)
(* the documents of SpecNested, every started call running on to its end     *)

MaxTermBody == 3

InitTerm == ((\E ls \in ReadFiles(MaxTermBody) : ReaderStart(ls)) /\ SceneIdle) \/ InitNested

SpecTerm == InitTerm /\ [][NextRead]_vars /\ WF_vars(NextRead)

\* a loop of a block routine found current_line >= len(lines) and the routine returned
LoopEndedAtEOF ==
    /\ current_line = Len(lines)
    /\ current_line' = current_line
    /\ \/ Len(stack') < Len(stack)
       \/ stack = <<>> /\ outcome' = "returned"          \* read_file's own loop

\* C26: the cursor stays within 0..len(lines); every loop iteration and every
\* call of a block routine moves it forward, the only other steps being the
\* header check and a return at the end of input; and read_file ends.
C26_CursorAdvancesToTheEnd ==
    /\ [](0 <= current_line /\ current_line <= Len(lines))
    /\ [][outcome = "running" => (current_line' > current_line \/ LoopEndedAtEOF)]_vars
    /\ [][outcome = "start" => (outcome' # "start" /\ current_line' \in {0, 1})]_vars
    /\ <>Finished

\* a parse that went through nested blocks and ended behind the last line
C26_Witness ==
    /\ outcome = "returned"
    /\ current_line = Len(lines)
    /\ Len(lines) >= 6
    /\ model.bones # <<>>

\* a parse whose loops all ended on the end of input inside open blocks
C26_WitnessOpen == outcome = "returned" /\ open_at_eof /\ current_line = Len(lines)

----------------------------------------------------------------------------
(* One weight per bone and vertex (specification SpecSkin) *)

\* the channels of vertex v (counted from 0) whose weight is kept for the group
\* called name: the channel resolves to that bone and the weight is significant
KeptChannels(v, name) ==
    {c \in 0..(Len(geometry.weights[v + 1]) - 1) :
        /\ Resolvable(c)
        /\ Resolved(c) = name
        /\ IsSignificant(geometry.weights[v + 1][c + 1].w)}

LastOf(S) == CHOOSE c \in S : \A d \in S : d <= c

\* C29: when apply_vertex_weights has resolved per-vertex weights, no two vertex
\* groups bear the same bone name, and a vertex holds in the group of a bone the
\* weight of the last kept channel that resolves to this bone (no weight when
\* there is none), never a sum over channels.
C29_LastChannelWins ==
    (Resolver_Done /\ ~NoWeightData)
        => /\ \A g, h \in 1..Len(mesh_obj.vertex_groups) :
                 mesh_obj.vertex_groups[g].name = mesh_obj.vertex_groups[h].name => g = h
           /\ \A g \in 1..Len(mesh_obj.vertex_groups) :
                 \A v \in 0..(Min(mesh_obj.nverts, Len(geometry.weights)) - 1) :
                    LET kept == KeptChannels(v, mesh_obj.vertex_groups[g].name)
                    IN  mesh_obj.vertex_groups[g].w[v + 1]
                          = IF kept = {} THEN NotInGroup
                            ELSE geometry.weights[v + 1][LastOf(kept) + 1].w

\* two channels of vertex 0 resolved to one bone, through a repeated BlendSubset
\* entry or through two BlendBones entries of one name, and the later one stands
C29_Witness ==
    /\ Resolver_Done
    /\ geometry.weights[1] = <<W(70000), W(30000)>>
    /\ Resolved(0) = Resolved(1) /\ Resolvable(0)
    /\ mesh_data.blend_subset[1] # mesh_data.blend_subset[2]
    /\ \E g \in 1..Len(mesh_obj.vertex_groups) :
          mesh_obj.vertex_groups[g].name = Resolved(0) /\ mesh_obj.vertex_groups[g].w[1] = 30000

\* the later of two channels on one bone is too small to be kept: the earlier stands
C29_WitnessEarlierStands ==
    /\ Resolver_Done
    /\ geometry.weights[1] = <<W(20), W(5)>>
    /\ mesh_data.blend_subset = <<0, 0>> /\ Resolvable(0)
    /\ \E g \in 1..Len(mesh_obj.vertex_groups) :
          mesh_obj.vertex_groups[g].name = Resolved(0) /\ mesh_obj.vertex_groups[g].w[1] = 20

----------------------------------------------------------------------------
(* The rigid decision at both places (specification SpecSkin) *)

\* apply_vertex_weights left at "Skipping vertex weights ... (rigid mesh using bone parenting)"
SkippedAsRigid == avw.pc = "return" /\ avw.skipped = "rigid"

====
